---- MODULE Spec2Model ----
(***************************************************************************)
(* The PvP battle session of src/js/pvp.js as a state machine.             *)
(*                                                                         *)
(* The module-level variable `battle` holds the one session object; the    *)
(* countdown clock (setInterval) and the opponent action (setTimeout) are  *)
(* pending timers whose callbacks read that module-level variable.  Every  *)
(* exported function of PvP and every timer callback is one action, built  *)
(* from an operator of the same name in lower case that maps the state     *)
(* before the call to the state after it, together with the value returned *)
(* and the callbacks invoked.  A call whose guard fails is a step that     *)
(* changes nothing.  Math.random draws and the callers' arguments are      *)
(* existentially quantified inputs.  Spec follows one session object from  *)
(* its startBattle call on.                                                *)
(*                                                                         *)
(* PaceSpec applies the opponent action and the pacing model of pvp.js to  *)
(* sessions in the middle of a battle and keeps the delay handed to        *)
(* setTimeout.  GenSpec applies the functions of src/js/sudoku.js          *)
(* (generate, solve) to arguments drawn from bounded sets and keeps the    *)
(* value returned.                                                         *)
(***************************************************************************)
EXTENDS Integers, FiniteSets, Sequences, TLC

VARIABLES
    battle,     \* pvp.js:34  the module-level session object, or NULL
    intervals,  \* live setInterval timers (the countdown clocks)
    timeouts,   \* pending setTimeout timers (the scheduled opponent actions)
    calls,      \* how often Player.updateELO / the end callback ran for `battle`
    rng,        \* sudoku.js:29  the active random number generator
    args,       \* the arguments of the sudoku.js call under study
    out,        \* what the last call under study handed out
    state       \* game.js:11  the state of the single-player game

vars == <<battle, intervals, timeouts, calls, rng, args, out, state>>

(***************************************************************************)
(* Bounds of the model.                                                    *)
(***************************************************************************)
\* side of the square grid and largest cell value (9 in the source)
GRID == 2
\* seconds on the clock at the start (600 in the source)
BATTLE_TIME == 6
\* cap on playerMistakes and on aiMistakes
MaxMistakes == 3
\* cap on playerCellsFilled
MaxFilled == 3
\* largest outcome of Math.floor(Math.random() * 3), the burst draw (2 in the source)
MaxBurstDraw == 0
\* side of a box of the sudoku grid (3 in the source)
BOX == 2
\* largest seed handed to generate
MaxSeed == 2
\* the sessions startBattle creates in one run of the page
MaxSessions == 2
\* the entries of the undo stack of the single-player game
MaxHistory == 2

(***************************************************************************)
(* Program constants.                                                      *)
(***************************************************************************)
TIME_PENALTY == 5
HINT_EVERY == 3
\* game.js:8-9
MAX_MISTAKES == 3
MAX_HINTS == 3
MIN_DELAY == 400
MAX_DELAY == 25000
\* 0x6D2B79F5, the two halves
MULBERRY_HIGH == 27947
MULBERRY_LOW == 31221

NULL == [sid |-> 0]
NoRet == [kind |-> "undefined"]
NullRet == [kind |-> "null"]

\* sudoku.js:29 `let rng = Math.random`
MathRandom == [kind |-> "Math.random"]
\* no call under study has been made / no arguments are needed
NoArgs == [kind |-> "none"]
NoOut == [kind |-> "none"]
\* no single-player game is in play
NoGame == [kind |-> "none"]

Pos == (0 .. GRID - 1) \X (0 .. GRID - 1)
Nums == 1 .. GRID

\* The callbacks handed to beginBattle: which of the four are supplied.
AllCallbacks == [onAIProgress |-> TRUE, onAIGainsHint |-> TRUE,
                 onTimerTick |-> TRUE, onBattleEnd |-> TRUE]
NoCallbacks == [onAIProgress |-> FALSE, onAIGainsHint |-> FALSE,
                onTimerTick |-> FALSE, onBattleEnd |-> FALSE]
CallbackChoices == {AllCallbacks, NoCallbacks}

\* The difficulty names startBattle is called with.
Difficulties == {"medium"}

\* AI_SPEED[difficulty] || AI_SPEED.medium
AI_SPEED(difficulty) ==
    CASE difficulty = "easy" -> [base |-> 3500, variance |-> 1500]
      [] difficulty = "medium" -> [base |-> 5000, variance |-> 2000]
      [] difficulty = "hard" -> [base |-> 7500, variance |-> 2500]
      [] difficulty = "expert" -> [base |-> 10000, variance |-> 3500]
      [] difficulty = "evil" -> [base |-> 15000, variance |-> 5000]
      [] OTHER -> [base |-> 5000, variance |-> 2000]

(***************************************************************************)
(* What SudokuEngine.generate hands to startBattle: a solution and the     *)
(* puzzle made from it by clearing some cells.                             *)
(***************************************************************************)
SolutionGrid == [p \in Pos |-> ((p[1] + p[2]) % GRID) + 1]
HoleSets == {{<<0, 0>>}, {<<0, 0>>, <<0, 1>>}}
PuzzleOf(holes) == [p \in Pos |-> IF p \in holes THEN 0 ELSE SolutionGrid[p]]
GeneratedPuzzles == {[puzzle |-> PuzzleOf(h), solution |-> SolutionGrid] : h \in HoleSets}

\* pvp.js:44-51 the cells the opponent has to fill
EmptyCells(data) == {p \in DOMAIN data.puzzle : data.puzzle[p] = 0}

\* pvp.js:289-298 every cell of the working grid equals the solution
AllFilled(b) == \A p \in Pos : b.playerBoard[p] = b.solution[p]

(***************************************************************************)
(* The code of one handler runs on a record of the whole state, one        *)
(* statement after the other: Cur is the state the handler is entered in,  *)
(* ret the value it returns, fired the callbacks it invokes.  Commit makes *)
(* the result the next state.                                              *)
(***************************************************************************)
Cur ==
    [battle |-> battle, intervals |-> intervals, timeouts |-> timeouts,
     calls |-> calls, ret |-> NoRet, fired |-> {}, delays |-> {}]

CommitBattle(s) ==
    /\ battle' = s.battle
    /\ intervals' = s.intervals
    /\ timeouts' = s.timeouts
    /\ calls' = s.calls

Commit(s) ==
    /\ CommitBattle(s)
    /\ UNCHANGED <<rng, args, out, state>>

Return(s, value) == [s EXCEPT !.ret = value]

Fire(s, supplied, name) ==
    IF supplied THEN [s EXCEPT !.fired = @ \cup {name}] ELSE s

(***************************************************************************)
(* pvp.js:367-411 endBattle(reason, callback)                              *)
(***************************************************************************)
\* x / total > y / total, the comparison of two completion fractions
\* (pvp.js:383-385); with total = 0 both are NaN and the comparison is false
PctGreater(x, y, total) == total > 0 /\ x > y

\* TimeoutOutcome with a tie counted as a loss
TimeoutOutcome_TieLoses(b) ==
    IF PctGreater(b.playerCellsFilled, b.aiCellsFilled, b.aiTotalCells) THEN
        [result |-> "win", eloDelta |-> 15]
    ELSE [result |-> "lose", eloDelta |-> -15]

\* pvp.js:382-394 the outcome when the clock has run out
TimeoutOutcome(b) ==
    IF PctGreater(b.playerCellsFilled, b.aiCellsFilled, b.aiTotalCells) THEN
        [result |-> "win", eloDelta |-> 15]
    ELSE IF PctGreater(b.aiCellsFilled, b.playerCellsFilled, b.aiTotalCells) THEN
        [result |-> "lose", eloDelta |-> -15]
    ELSE [result |-> "draw", eloDelta |-> 0]

\* Outcome with a forfeit counted as a draw at the price of a loss
Outcome_QuitDraws(b, reason) ==
    IF reason = "player_finished" \/ b.playerFinished THEN
        [result |-> "win", eloDelta |-> 25]
    ELSE IF reason = "ai_finished" THEN
        [result |-> "lose", eloDelta |-> -25]
    ELSE IF reason = "timeout" THEN TimeoutOutcome(b)
    ELSE IF reason = "quit" THEN
        [result |-> "draw", eloDelta |-> -25]
    ELSE [result |-> b.result, eloDelta |-> b.eloDelta]

\* pvp.js:375-398 the result and the rating delta
Outcome(b, reason) ==
    IF reason = "player_finished" \/ b.playerFinished THEN
        [result |-> "win", eloDelta |-> 25]
    ELSE IF reason = "ai_finished" THEN
        [result |-> "lose", eloDelta |-> -25]
    ELSE IF reason = "timeout" THEN TimeoutOutcome(b)
    ELSE IF reason = "quit" THEN
        [result |-> "lose", eloDelta |-> -25]
    ELSE [result |-> b.result, eloDelta |-> b.eloDelta]

\* endBattle without `battle.ended = true` (pvp.js:369)
endBattle_EndedNotSet(s, reason, callback) ==
    IF s.battle.ended THEN s
    ELSE
        LET b == s.battle
            o == Outcome(b, reason)
            s1 == [s EXCEPT
                     !.battle = [b EXCEPT !.result = o.result,
                                          !.eloDelta = o.eloDelta],
                     !.intervals = {t \in @ : t.id # b.timerIntervalId},
                     !.timeouts = {t \in @ : t.id # b.aiIntervalId},
                     !.calls = [elo |-> @.elo + 1,
                                end |-> IF callback THEN @.end + 1 ELSE @.end,
                                supplied |-> callback]]
        IN Fire(Fire(s1, TRUE, "updateELO"), callback, "onBattleEnd")

\* endBattle without `if (callback) callback(battle)` (pvp.js:410)
endBattle_NoCallback(s, reason, callback) ==
    IF s.battle.ended THEN s
    ELSE
        LET b == s.battle
            o == Outcome(b, reason)
            s1 == [s EXCEPT
                     !.battle = [b EXCEPT !.ended = TRUE,
                                          !.result = o.result,
                                          !.eloDelta = o.eloDelta],
                     !.intervals = {t \in @ : t.id # b.timerIntervalId},
                     !.timeouts = {t \in @ : t.id # b.aiIntervalId},
                     !.calls = [elo |-> @.elo + 1,
                                end |-> @.end,
                                supplied |-> callback]]
        IN Fire(s1, TRUE, "updateELO")

endBattle(s, reason, callback) ==
    IF s.battle.ended THEN s
    ELSE
        LET b == s.battle
            o == Outcome(b, reason)
            s1 == [s EXCEPT
                     !.battle = [b EXCEPT !.ended = TRUE,
                                          !.result = o.result,
                                          !.eloDelta = o.eloDelta],
                     !.intervals = {t \in @ : t.id # b.timerIntervalId},
                     !.timeouts = {t \in @ : t.id # b.aiIntervalId},
                     !.calls = [elo |-> @.elo + 1,
                                end |-> IF callback THEN @.end + 1 ELSE @.end,
                                supplied |-> callback]]
        IN Fire(Fire(s1, TRUE, "updateELO"), callback, "onBattleEnd")

(***************************************************************************)
(* pvp.js:233-271 scheduleAIAction: the setTimeout call with the delay it  *)
(* is handed.  The callback is the action AIAction below.                  *)
(***************************************************************************)
scheduleAIAction(s, delay, cbs, chain) ==
    [s EXCEPT !.battle.aiIntervalId = chain,
              !.timeouts = @ \cup {[id |-> chain, cbs |-> cbs]},
              !.delays = @ \cup {delay}]

(***************************************************************************)
(* pvp.js:141-231 scheduleNextAICell.  rnd holds the Math.random draws of  *)
(* one call.  Delays are whole milliseconds; a draw of Math.random() that  *)
(* enters a delay is given in thousandths, a multiplier in thousandths as  *)
(* well.                                                                   *)
(***************************************************************************)
\* PhaseOf with the test of the streak before the test of the last stretch
PhaseOf_FatigueFirst(b) ==
    IF 100 * b.aiCellsFilled < 12 * b.aiTotalCells THEN "warmup"
    ELSE IF b.aiConsecutiveSolves > 8 THEN "fatigue"
    ELSE IF 100 * b.aiCellsFilled > 85 * b.aiTotalCells THEN "focused"
    ELSE "normal"

\* pvp.js:158-166
PhaseOf(b) ==
    IF 100 * b.aiCellsFilled < 12 * b.aiTotalCells THEN "warmup"
    ELSE IF 100 * b.aiCellsFilled > 85 * b.aiTotalCells THEN "focused"
    ELSE IF b.aiConsecutiveSolves > 8 THEN "fatigue"
    ELSE "normal"

\* the outcomes of Math.random() the model draws, in thousandths
Fractions == {0, 999}

\* Math.random() * k for a draw of u thousandths
Scale(u, k) == (u * k) \div 1000

\* baseDelay *= m for a multiplier of m thousandths
Times(d, m) == (d * m) \div 1000

\* pvp.js:172-189 the multiplier of the phase
PhaseFactor(phase, u) ==
    CASE phase = "warmup" -> 1400 + Scale(u, 600)
      [] phase = "focused" -> 500 + Scale(u, 300)
      [] phase = "fatigue" -> 1200 + Scale(u, 500)
      [] OTHER -> 1000

\* pvp.js:191-193 baseDelay *= 1 - progress * 0.25
Momentum(b, d) == (d * (4 * b.aiTotalCells - b.aiCellsFilled)) \div (4 * b.aiTotalCells)

\* pvp.js:201-202 playerProgress > progress + 0.15
PlayerLeads(b) == 100 * b.playerCellsFilled > 100 * b.aiCellsFilled + 15 * b.aiTotalCells

\* ClampDelay without the lower limit
ClampDelay_NoFloor(d) == IF d > MAX_DELAY THEN MAX_DELAY ELSE d

\* pvp.js:228 Math.max(400, Math.min(baseDelay, 25000))
ClampDelay(d) ==
    LET m == IF d < MAX_DELAY THEN d ELSE MAX_DELAY
    IN IF m > MIN_DELAY THEN m ELSE MIN_DELAY

\* The draws of one call: hintFlip: Math.random() > 0.5 (pvp.js:150); hintU
\* (152); baseU (169); phaseU (175, 179, 183); recent: Date.now() less than
\* 8000 after the last mistake (196); slowU (197); rushFlip: Math.random() <
\* 0.4 (204); rushU (205); burstU (210); burstStart: Math.random() < 0.12
\* (212); burstDraw: Math.floor(Math.random() * 3) (214); pauseFlip:
\* Math.random() < 0.08 (219); pauseU (221); jitterU (225).
PaceDraws ==
    [hintFlip : {TRUE}, hintU : Fractions, baseU : {0}, phaseU : {0},
     recent : {FALSE}, slowU : {0}, rushFlip : {FALSE}, rushU : {0},
     burstU : {0}, burstStart : {FALSE}, burstDraw : {0},
     pauseFlip : {FALSE}, pauseU : {0}, jitterU : {0}]
    \cup
    {rnd \in
        [hintFlip : {FALSE}, hintU : {0}, baseU : Fractions, phaseU : Fractions,
         recent : BOOLEAN, slowU : Fractions, rushFlip : BOOLEAN, rushU : Fractions,
         burstU : Fractions, burstStart : BOOLEAN, burstDraw : 0 .. MaxBurstDraw,
         pauseFlip : BOOLEAN, pauseU : Fractions, jitterU : Fractions] :
        /\ ~rnd.recent => rnd.slowU = 0
        /\ ~rnd.rushFlip => rnd.rushU = 0
        /\ ~rnd.burstStart => rnd.burstDraw = 0
        /\ ~rnd.pauseFlip => rnd.pauseU = 0}

\* The draws that decide what the function writes to the session; a draw
\* that only enters the delay, and a draw the code does not reach, has one
\* fixed value here.
RandomDraws ==
    {rnd \in PaceDraws :
        /\ rnd.hintU = 0 /\ rnd.baseU = 0 /\ rnd.phaseU = 0 /\ rnd.slowU = 0
        /\ rnd.rushU = 0 /\ rnd.burstU = 0 /\ rnd.pauseU = 0 /\ rnd.jitterU = 0
        /\ ~rnd.recent /\ ~rnd.rushFlip /\ ~rnd.pauseFlip
        /\ ~rnd.burstStart => rnd.burstDraw = 0}

\* scheduleNextAICell taking the hint path without a credit (pvp.js:150)
scheduleNextAICell_HintWithoutCredit(s, cbs, chain, rnd) ==
    LET b == s.battle IN
    IF b.ended \/ b.aiFinished THEN s
    ELSE IF b.aiHints >= 0 /\ rnd.hintFlip THEN
        scheduleAIAction([s EXCEPT !.battle.aiHints = @ - 1],
                         200 + Scale(rnd.hintU, 400), cbs, chain)
    ELSE
        LET b1 == [b EXCEPT !.aiPhase = PhaseOf(b)]
            d1 == b.aiSpeed.base + Scale(2 * rnd.baseU - 1000, b.aiSpeed.variance)
            d2 == Times(d1, PhaseFactor(b1.aiPhase, rnd.phaseU))
            b2 == IF b1.aiPhase = "fatigue"
                  THEN [b1 EXCEPT !.aiConsecutiveSolves = 0] ELSE b1
            d3 == Momentum(b, d2)
            d4 == IF b.aiLastMistakeAt # 0 /\ rnd.recent
                  THEN Times(d3, 1300 + Scale(rnd.slowU, 400)) ELSE d3
            d5 == IF PlayerLeads(b) /\ rnd.rushFlip
                  THEN Times(d4, 600 + Scale(rnd.rushU, 200)) ELSE d4
            b3 == IF b2.aiBurstRemaining > 0
                  THEN [b2 EXCEPT !.aiBurstRemaining = @ - 1]
                  ELSE IF b2.aiPhase = "normal" /\ rnd.burstStart
                  THEN [b2 EXCEPT !.aiBurstRemaining = 2 + rnd.burstDraw]
                  ELSE b2
            d6 == IF b2.aiBurstRemaining > 0
                  THEN Times(d5, 250 + Scale(rnd.burstU, 150))
                  ELSE IF b2.aiPhase = "normal" /\ rnd.burstStart
                  THEN Times(d5, 300)
                  ELSE d5
            d7 == IF b3.aiPhase = "normal" /\ b3.aiBurstRemaining = 0 /\ rnd.pauseFlip
                  THEN 5000 + Scale(rnd.pauseU, 10000) ELSE d6
            d8 == d7 + Scale(rnd.jitterU - 500, 800)
        IN scheduleAIAction([s EXCEPT !.battle = b3], ClampDelay(d8), cbs, chain)

scheduleNextAICell(s, cbs, chain, rnd) ==
    LET b == s.battle IN
    IF b.ended \/ b.aiFinished THEN s
    ELSE IF b.aiHints > 0 /\ rnd.hintFlip THEN
        scheduleAIAction([s EXCEPT !.battle.aiHints = @ - 1],
                         200 + Scale(rnd.hintU, 400), cbs, chain)
    ELSE
        LET b1 == [b EXCEPT !.aiPhase = PhaseOf(b)]
            d1 == b.aiSpeed.base + Scale(2 * rnd.baseU - 1000, b.aiSpeed.variance)
            d2 == Times(d1, PhaseFactor(b1.aiPhase, rnd.phaseU))
            b2 == IF b1.aiPhase = "fatigue"
                  THEN [b1 EXCEPT !.aiConsecutiveSolves = 0] ELSE b1
            d3 == Momentum(b, d2)
            d4 == IF b.aiLastMistakeAt # 0 /\ rnd.recent
                  THEN Times(d3, 1300 + Scale(rnd.slowU, 400)) ELSE d3
            d5 == IF PlayerLeads(b) /\ rnd.rushFlip
                  THEN Times(d4, 600 + Scale(rnd.rushU, 200)) ELSE d4
            b3 == IF b2.aiBurstRemaining > 0
                  THEN [b2 EXCEPT !.aiBurstRemaining = @ - 1]
                  ELSE IF b2.aiPhase = "normal" /\ rnd.burstStart
                  THEN [b2 EXCEPT !.aiBurstRemaining = 2 + rnd.burstDraw]
                  ELSE b2
            d6 == IF b2.aiBurstRemaining > 0
                  THEN Times(d5, 250 + Scale(rnd.burstU, 150))
                  ELSE IF b2.aiPhase = "normal" /\ rnd.burstStart
                  THEN Times(d5, 300)
                  ELSE d5
            d7 == IF b3.aiPhase = "normal" /\ b3.aiBurstRemaining = 0 /\ rnd.pauseFlip
                  THEN 5000 + Scale(rnd.pauseU, 10000) ELSE d6
            d8 == d7 + Scale(rnd.jitterU - 500, 800)
        IN scheduleAIAction([s EXCEPT !.battle = b3], ClampDelay(d8), cbs, chain)

(***************************************************************************)
(* pvp.js:39-117 startBattle                                               *)
(***************************************************************************)
NewBattle(sid, difficulty, data) ==
    [sid |-> sid,
     difficulty |-> difficulty,
     solution |-> data.solution,
     original |-> data.puzzle,
     playerBoard |-> data.puzzle,
     playerCellsFilled |-> 0,
     playerMistakes |-> 0,
     playerHints |-> 0,
     playerFinished |-> FALSE,
     aiCellsFilled |-> 0,
     aiTotalCells |-> Cardinality(EmptyCells(data)),
     aiFinished |-> FALSE,
     aiIntervalId |-> 0,
     aiSpeed |-> AI_SPEED(difficulty),
     aiHints |-> 0,
     aiMistakes |-> 0,
     aiBurstRemaining |-> 0,
     aiLastMistakeAt |-> 0,
     aiConsecutiveSolves |-> 0,
     aiPhase |-> "warmup",
     timeRemaining |-> BATTLE_TIME,
     timerIntervalId |-> 0,
     started |-> FALSE,
     ended |-> FALSE,
     result |-> "null",
     eloDelta |-> 0]

NoCalls == [elo |-> 0, end |-> 0, supplied |-> FALSE]

startBattle(s, difficulty, data) ==
    [s EXCEPT !.battle = NewBattle(s.battle.sid + 1, difficulty, data),
              !.calls = NoCalls]

StartBattle(difficulty, data) ==
    /\ battle = NULL
    /\ Commit(startBattle(Cur, difficulty, data))

(***************************************************************************)
(* pvp.js:122-139 beginBattle                                              *)
(***************************************************************************)
\* beginBattle without the test of battle.started (pvp.js:123)
beginBattle_NoStartedTest(s, cbs, rnd) ==
    IF s.battle = NULL THEN s
    ELSE
        LET id == s.battle.sid
            s1 == [s EXCEPT !.battle.started = TRUE,
                            !.battle.timerIntervalId = id,
                            !.intervals = @ \cup {[id |-> id, cbs |-> cbs]}]
        IN scheduleNextAICell(s1, cbs, id, rnd)

beginBattle(s, cbs, rnd) ==
    IF s.battle = NULL \/ s.battle.started THEN s
    ELSE
        LET id == s.battle.sid
            s1 == [s EXCEPT !.battle.started = TRUE,
                            !.battle.timerIntervalId = id,
                            !.intervals = @ \cup {[id |-> id, cbs |-> cbs]}]
        IN scheduleNextAICell(s1, cbs, id, rnd)

BeginBattle(cbs, rnd) ==
    LET s == beginBattle(Cur, cbs, rnd) IN Commit(s)

(***************************************************************************)
(* pvp.js:127-135 the clock's callback, once per second                    *)
(***************************************************************************)
\* tick that stops the clock at zero and never ends the session
tick_NeverTimesOut(s, t) ==
    IF s.battle.ended \/ s.battle.timeRemaining <= 0 THEN s
    ELSE Fire([s EXCEPT !.battle.timeRemaining = @ - 1],
              t.cbs.onTimerTick, "onTimerTick")

\* tick that counts the second down only when onTimerTick is supplied
tick_CountsWhenObserved(s, t) ==
    IF s.battle.ended THEN s
    ELSE
        LET s1 == IF t.cbs.onTimerTick
                  THEN Fire([s EXCEPT !.battle.timeRemaining = @ - 1],
                            TRUE, "onTimerTick")
                  ELSE s
        IN IF s1.battle.timeRemaining <= 0
           THEN endBattle(s1, "timeout", t.cbs.onBattleEnd)
           ELSE s1

tick(s, t) ==
    IF s.battle.ended THEN s
    ELSE
        LET s1 == Fire([s EXCEPT !.battle.timeRemaining = @ - 1],
                       t.cbs.onTimerTick, "onTimerTick")
        IN IF s1.battle.timeRemaining <= 0
           THEN endBattle(s1, "timeout", t.cbs.onBattleEnd)
           ELSE s1

Tick(t) ==
    /\ t \in intervals
    /\ Commit(tick(Cur, t))

(***************************************************************************)
(* pvp.js:234-270 the opponent action's callback                           *)
(***************************************************************************)
\* OpponentDone without `battle.aiFinished = true` (pvp.js:263)
OpponentDone_FlagNotSet(s, callback) ==
    IF ~s.battle.playerFinished
    THEN endBattle(s, "ai_finished", callback)
    ELSE s

\* OpponentDone without the test of playerFinished (pvp.js:264)
OpponentDone_AlwaysEnds(s, callback) ==
    endBattle([s EXCEPT !.battle.aiFinished = TRUE], "ai_finished", callback)

\* pvp.js:263-266 the opponent has filled its last cell
OpponentDone(s, callback) ==
    LET s1 == [s EXCEPT !.battle.aiFinished = TRUE]
    IN IF ~s1.battle.playerFinished
       THEN endBattle(s1, "ai_finished", callback)
       ELSE s1

\* aiAction without `battle.aiBurstRemaining = 0` (pvp.js:248)
aiAction_KeepsBurst(s0, t, mistake, rnd) ==
    LET s == [s0 EXCEPT !.timeouts = @ \ {t}] IN
    IF s.battle.ended THEN s
    ELSE IF mistake THEN
        LET s1 == [s EXCEPT !.battle.aiMistakes = @ + 1,
                            !.battle.aiLastMistakeAt = 1,
                            !.battle.aiConsecutiveSolves = 0]
            s2 == IF s1.battle.aiMistakes % HINT_EVERY = 0
                  THEN Fire([s1 EXCEPT !.battle.playerHints = @ + 1],
                            t.cbs.onAIGainsHint, "onAIGainsHint")
                  ELSE s1
        IN scheduleNextAICell(s2, t.cbs, t.id, rnd)
    ELSE
        LET s1 == Fire([s EXCEPT !.battle.aiCellsFilled = @ + 1,
                                 !.battle.aiConsecutiveSolves = @ + 1],
                       t.cbs.onAIProgress, "onAIProgress")
        IN IF s1.battle.aiCellsFilled >= s1.battle.aiTotalCells
           THEN OpponentDone(s1, t.cbs.onBattleEnd)
           ELSE scheduleNextAICell(s1, t.cbs, t.id, rnd)

\* s0 is the state in which the timeout t fires; t is no longer pending.
aiAction(s0, t, mistake, rnd) ==
    LET s == [s0 EXCEPT !.timeouts = @ \ {t}] IN
    IF s.battle.ended THEN s
    ELSE IF mistake THEN
        LET s1 == [s EXCEPT !.battle.aiMistakes = @ + 1,
                            !.battle.aiLastMistakeAt = 1,
                            !.battle.aiConsecutiveSolves = 0,
                            !.battle.aiBurstRemaining = 0]
            s2 == IF s1.battle.aiMistakes % HINT_EVERY = 0
                  THEN Fire([s1 EXCEPT !.battle.playerHints = @ + 1],
                            t.cbs.onAIGainsHint, "onAIGainsHint")
                  ELSE s1
        IN scheduleNextAICell(s2, t.cbs, t.id, rnd)
    ELSE
        LET s1 == Fire([s EXCEPT !.battle.aiCellsFilled = @ + 1,
                                 !.battle.aiConsecutiveSolves = @ + 1],
                       t.cbs.onAIProgress, "onAIProgress")
        IN IF s1.battle.aiCellsFilled >= s1.battle.aiTotalCells
           THEN OpponentDone(s1, t.cbs.onBattleEnd)
           ELSE scheduleNextAICell(s1, t.cbs, t.id, rnd)

AIAction(t, mistake, rnd) ==
    LET s == aiAction(Cur, t, mistake, rnd) IN
    /\ t \in timeouts
    /\ s.battle.aiMistakes <= MaxMistakes
    /\ Commit(s)

(***************************************************************************)
(* pvp.js:276-316 playerPlace(row, col, num)                               *)
(***************************************************************************)
\* MarkFinished that never sets the flag
MarkFinished_Never(b) == b

\* pvp.js:288-303 and 331-346: playerFinished is set when the grid is solved
MarkFinished(b) ==
    IF AllFilled(b) THEN [b EXCEPT !.playerFinished = TRUE] ELSE b

\* pvp.js:307 Math.max(0, battle.timeRemaining - 5)
Penalty(timeRemaining) ==
    IF timeRemaining - TIME_PENALTY > 0 THEN timeRemaining - TIME_PENALTY ELSE 0

\* GrantAIHint with two credits on every third mistake
GrantAIHint_TwoCredits(b) ==
    IF b.playerMistakes % HINT_EVERY = 0 THEN [b EXCEPT !.aiHints = @ + 2] ELSE b

\* GrantAIHint with a credit on every mistake
GrantAIHint_EveryMistake(b) == [b EXCEPT !.aiHints = @ + 1]

\* pvp.js:310-312 the opponent's hint credit on every third mistake
GrantAIHint(b) ==
    IF b.playerMistakes % HINT_EVERY = 0 THEN [b EXCEPT !.aiHints = @ + 1] ELSE b

playerPlace(s, p, num) ==
    LET b == s.battle IN
    IF b = NULL \/ b.ended \/ b.playerFinished THEN Return(s, NullRet)
    ELSE IF b.original[p] # 0 THEN Return(s, NullRet)
    ELSE
        LET isCorrect == (num = b.solution[p])
            b1 == [b EXCEPT !.playerBoard[p] = num]
        IN IF isCorrect THEN
               LET b2 == MarkFinished([b1 EXCEPT !.playerCellsFilled = @ + 1])
               IN Return([s EXCEPT !.battle = b2],
                         [kind |-> "place", isCorrect |-> TRUE,
                          finished |-> b2.playerFinished])
           ELSE
               LET b2 == [b1 EXCEPT !.playerMistakes = @ + 1,
                                    !.timeRemaining = Penalty(@)]
                   b3 == GrantAIHint(b2)
               IN Return([s EXCEPT !.battle = b3],
                         [kind |-> "place", isCorrect |-> FALSE, finished |-> FALSE])

PlayerPlace(p, num) ==
    LET s == playerPlace(Cur, p, num) IN
    /\ s.battle # NULL =>
         /\ s.battle.playerMistakes <= MaxMistakes
         /\ s.battle.playerCellsFilled <= MaxFilled
    /\ Commit(s)

(***************************************************************************)
(* pvp.js:321-349 playerUseHint(row, col)                                  *)
(***************************************************************************)
\* playerUseHint without the test of the remaining credits (pvp.js:323)
playerUseHint_NoCreditTest(s, p) ==
    LET b == s.battle IN
    IF b = NULL \/ b.ended \/ b.playerFinished THEN Return(s, NullRet)
    ELSE IF b.original[p] # 0 THEN Return(s, NullRet)
    ELSE IF b.playerBoard[p] = b.solution[p] THEN Return(s, NullRet)
    ELSE
        LET b1 == MarkFinished([b EXCEPT !.playerHints = @ - 1,
                                         !.playerBoard[p] = b.solution[p],
                                         !.playerCellsFilled = @ + 1])
        IN Return([s EXCEPT !.battle = b1],
                  [kind |-> "hint", used |-> TRUE, finished |-> b1.playerFinished])

playerUseHint(s, p) ==
    LET b == s.battle IN
    IF b = NULL \/ b.ended \/ b.playerFinished THEN Return(s, NullRet)
    ELSE IF b.playerHints <= 0 THEN Return(s, NullRet)
    ELSE IF b.original[p] # 0 THEN Return(s, NullRet)
    ELSE IF b.playerBoard[p] = b.solution[p] THEN Return(s, NullRet)
    ELSE
        LET b1 == MarkFinished([b EXCEPT !.playerHints = @ - 1,
                                         !.playerBoard[p] = b.solution[p],
                                         !.playerCellsFilled = @ + 1])
        IN Return([s EXCEPT !.battle = b1],
                  [kind |-> "hint", used |-> TRUE, finished |-> b1.playerFinished])

PlayerUseHint(p) ==
    LET s == playerUseHint(Cur, p) IN
    /\ s.battle # NULL => s.battle.playerCellsFilled <= MaxFilled
    /\ Commit(s)

(***************************************************************************)
(* pvp.js:354-362 playerErase(row, col)                                    *)
(***************************************************************************)
\* playerErase without the test of the original grid (pvp.js:355)
playerErase_CluesToo(s, p) ==
    LET b == s.battle IN
    IF b = NULL \/ b.ended THEN s
    ELSE
        LET b1 == IF b.playerBoard[p] # 0 /\ b.playerBoard[p] = b.solution[p]
                  THEN [b EXCEPT !.playerCellsFilled = @ - 1] ELSE b
        IN [s EXCEPT !.battle = [b1 EXCEPT !.playerBoard[p] = 0]]

\* playerErase that takes one off the fill counter whatever the cell held
playerErase_AlwaysDecrements(s, p) ==
    LET b == s.battle IN
    IF b = NULL \/ b.ended THEN s
    ELSE IF b.original[p] # 0 THEN s
    ELSE [s EXCEPT !.battle = [b EXCEPT !.playerCellsFilled = @ - 1,
                                        !.playerBoard[p] = 0]]

playerErase(s, p) ==
    LET b == s.battle IN
    IF b = NULL \/ b.ended THEN s
    ELSE IF b.original[p] # 0 THEN s
    ELSE
        LET b1 == IF b.playerBoard[p] # 0 /\ b.playerBoard[p] = b.solution[p]
                  THEN [b EXCEPT !.playerCellsFilled = @ - 1] ELSE b
        IN [s EXCEPT !.battle = [b1 EXCEPT !.playerBoard[p] = 0]]

PlayerErase(p) ==
    LET s == playerErase(Cur, p) IN Commit(s)

(***************************************************************************)
(* pvp.js:416-420 playerFinish(callback)                                   *)
(***************************************************************************)
\* playerFinish without `battle.playerFinished = true` (pvp.js:418)
playerFinish_FlagNotSet(s, callback) ==
    IF s.battle = NULL \/ s.battle.ended THEN s
    ELSE endBattle(s, "player_finished", callback)

playerFinish(s, callback) ==
    IF s.battle = NULL \/ s.battle.ended THEN s
    ELSE endBattle([s EXCEPT !.battle.playerFinished = TRUE], "player_finished", callback)

PlayerFinish(callback) ==
    LET s == playerFinish(Cur, callback) IN Commit(s)

(***************************************************************************)
(* pvp.js:425-428 quitBattle(callback)                                     *)
(***************************************************************************)
\* quitBattle passing a reason endBattle does not know
quitBattle_UnknownReason(s, callback) ==
    IF s.battle = NULL \/ s.battle.ended THEN s
    ELSE endBattle(s, "forfeit", callback)

quitBattle(s, callback) ==
    IF s.battle = NULL \/ s.battle.ended THEN s
    ELSE endBattle(s, "quit", callback)

QuitBattle(callback) ==
    LET s == quitBattle(Cur, callback) IN Commit(s)

(***************************************************************************)
(* The pacing of the opponent on its own: sessions in the middle of a      *)
(* battle on a puzzle with twelve empty cells, and one call of beginBattle *)
(* or of the opponent action's callback under every outcome of its draws.  *)
(* out records the delays the call has handed to scheduleAIAction and      *)
(* whether it has spent a hint credit.                                     *)
(***************************************************************************)
\* a puzzle of SudokuEngine.generate and its solution, row by row
PaceRows == <<<<2, 0, 0, 3>>, <<0, 0, 0, 0>>, <<0, 4, 1, 0>>, <<0, 0, 0, 0>>>>
PaceSolutionRows == <<<<2, 1, 4, 3>>, <<4, 3, 2, 1>>, <<3, 4, 1, 2>>, <<1, 2, 3, 4>>>>
PaceCells == (0 .. 3) \X (0 .. 3)
PaceData ==
    [puzzle |-> [p \in PaceCells |-> PaceRows[p[1] + 1][p[2] + 1]],
     solution |-> [p \in PaceCells |-> PaceSolutionRows[p[1] + 1][p[2] + 1]]]

PaceDifficulties == {"easy", "medium", "evil"}
\* the cells the opponent has filled: none, a sixth, half, three quarters,
\* all but two, all but one
PaceFilled == {0, 2, 6, 9, 10, 11}
\* the cells the human has filled
PacePlayerFilled == {0, 6}

\* the human's grid after the first n empty cells were filled correctly
PaceBoard(n) ==
    [p \in PaceCells |->
        IF Cardinality({q \in EmptyCells(PaceData) :
                           q[1] < p[1] \/ (q[1] = p[1] /\ q[2] < p[2])}) < n
        THEN PaceData.solution[p] ELSE PaceData.puzzle[p]]

\* A session after startBattle, beginBattle (if started) and the moves that
\* lead to these counters: the opponent has filled `filled` cells, the last
\* `streak` of them since its last mistake or fatigue, `burst` cells of a
\* burst are left, the human has filled n cells and has made three
\* mistakes for each hint credit of the opponent.
PaceSession(difficulty, started, filled, streak, burst, hints, mistaken, n) ==
    LET id == IF started THEN 1 ELSE 0
        left == IF hints > 0 THEN Penalty(Penalty(Penalty(BATTLE_TIME)))
                ELSE BATTLE_TIME
    IN [NewBattle(1, difficulty, PaceData) EXCEPT
           !.started = started,
           !.timerIntervalId = id,
           !.aiIntervalId = id,
           !.aiCellsFilled = filled,
           !.aiConsecutiveSolves = streak,
           !.aiBurstRemaining = burst,
           !.aiHints = hints,
           !.playerMistakes = HINT_EVERY * hints,
           !.timeRemaining = left,
           !.aiMistakes = IF mistaken THEN 1 ELSE 0,
           !.aiLastMistakeAt = IF mistaken THEN 1 ELSE 0,
           !.aiPhase = IF filled = 0 THEN "warmup" ELSE "normal",
           !.playerCellsFilled = n,
           !.playerBoard = PaceBoard(n)]

PaceSessions ==
    {PaceSession(d, TRUE, filled, streak, burst, hints, mistaken, n) :
        d \in PaceDifficulties, filled \in PaceFilled, streak \in {0, 1},
        burst \in 0 .. 2 + MaxBurstDraw, hints \in {0, 1}, mistaken \in BOOLEAN,
        n \in PacePlayerFilled}

\* the streak is the whole run of filled cells or was reset; a burst starts
\* in the normal phase only, after the warmup; nothing is filled, lost or
\* begun before beginBattle
PaceStates ==
    {b \in {[c EXCEPT !.aiConsecutiveSolves = @ * c.aiCellsFilled] : c \in PaceSessions} :
        b.aiBurstRemaining > 0 => PhaseOf([b EXCEPT !.aiCellsFilled = @ - 1]) # "warmup"}
    \cup {PaceSession(d, FALSE, 0, 0, 0, hints, FALSE, n) :
            d \in PaceDifficulties, hints \in {0, 1}, n \in PacePlayerFilled}

CommitPace(s, b) ==
    /\ CommitBattle(s)
    /\ out' = [kind |-> "delays", delays |-> s.delays,
               hint |-> s.battle.aiHints < b.aiHints]
    /\ UNCHANGED <<rng, args, state>>

\* beginBattle(callbacks)
PaceBeginBattle(cbs, rnd) ==
    /\ out = NoOut
    /\ ~battle.started
    /\ CommitPace(beginBattle(Cur, cbs, rnd), battle)

\* the opponent action's callback fires
PaceAIAction(t, mistake, rnd) ==
    /\ out = NoOut
    /\ t \in timeouts
    /\ CommitPace(aiAction(Cur, t, mistake, rnd), battle)

PaceInit ==
    /\ battle \in PaceStates
    /\ intervals = IF battle.started THEN {[id |-> 1, cbs |-> AllCallbacks]} ELSE {}
    /\ timeouts = IF battle.started THEN {[id |-> 1, cbs |-> AllCallbacks]} ELSE {}
    /\ calls = NoCalls
    /\ rng = MathRandom
    /\ args = NoArgs
    /\ out = NoOut
    /\ state = NoGame

PaceNext ==
    \/ \E rnd \in PaceDraws : PaceBeginBattle(AllCallbacks, rnd)
    \/ \E t \in timeouts, mistake \in BOOLEAN, rnd \in PaceDraws :
          PaceAIAction(t, mistake, rnd)

PaceSpec == PaceInit /\ [][PaceNext]_vars

(***************************************************************************)
(* src/js/sudoku.js, the puzzle generator and solver.  A grid has SIDE     *)
(* rows and columns and BOX x BOX boxes (9 and 3 x 3 in the source); a     *)
(* cell is <<row, col>>.  A 32-bit integer is a pair <<high, low>> of      *)
(* 16-bit halves, so that no intermediate value leaves the integers TLC    *)
(* computes with.                                                          *)
(***************************************************************************)
SIDE == BOX * BOX
Cells == (0 .. SIDE - 1) \X (0 .. SIDE - 1)
CellCount == SIDE * SIDE
\* the place of a cell in the row-by-row order of the loops
Idx(p) == p[1] * SIDE + p[2]
CellAt(i) == <<i \div SIDE, i % SIDE>>

\* sudoku.js:9-15 DIFFICULTY, [minClues, maxClues] of 81 cells, brought to
\* the CellCount cells of the model's grid
Clues(n) == (n * CellCount) \div 81

\* Names every object has from Object.prototype: DIFFICULTY[name] is then a
\* function, which is truthy (the default of line 120 is not taken) and
\* not iterable (the destructuring of line 120 throws a TypeError).
ObjectPrototype == {"constructor", "toString"}
TypeError == [kind |-> "TypeError"]

DIFFICULTY(difficulty) ==
    CASE difficulty = "easy" -> <<Clues(38), Clues(45)>>
      [] difficulty = "medium" -> <<Clues(30), Clues(37)>>
      [] difficulty = "hard" -> <<Clues(25), Clues(29)>>
      [] difficulty = "expert" -> <<Clues(22), Clues(24)>>
      [] difficulty = "evil" -> <<Clues(17), Clues(21)>>
      [] OTHER -> <<Clues(30), Clues(37)>>

W16 == 2 ^ 16

\* a ^ b and a | b of two 4-bit numbers, bit by bit
XorNibble ==
    [a \in 0 .. 15, b \in 0 .. 15 |->
        ((a + b) % 2) + 2 * ((a \div 2 + b \div 2) % 2)
        + 4 * ((a \div 4 + b \div 4) % 2) + 8 * ((a \div 8 + b \div 8) % 2)]
OrNibble ==
    [a \in 0 .. 15, b \in 0 .. 15 |-> a + b - (a + b - XorNibble[a, b]) \div 2]

\* a ^ b and a | b of two 16-bit numbers, four bits at a time
Xor16(a, b) ==
    XorNibble[a % 16, b % 16] + 16 * XorNibble[(a \div 16) % 16, (b \div 16) % 16]
    + 256 * XorNibble[(a \div 256) % 16, (b \div 256) % 16]
    + 4096 * XorNibble[a \div 4096, b \div 4096]
Or16(a, b) ==
    OrNibble[a % 16, b % 16] + 16 * OrNibble[(a \div 16) % 16, (b \div 16) % 16]
    + 256 * OrNibble[(a \div 256) % 16, (b \div 256) % 16]
    + 4096 * OrNibble[a \div 4096, b \div 4096]

\* x ^ y, x | y, x >>> k (0 < k < 16), (x + y) | 0, Math.imul(x, y)
Xor32(x, y) == <<Xor16(x[1], y[1]), Xor16(x[2], y[2])>>
Or32(x, y) == <<Or16(x[1], y[1]), Or16(x[2], y[2])>>
Shr32(x, k) == <<x[1] \div 2 ^ k, (x[1] % 2 ^ k) * 2 ^ (16 - k) + x[2] \div 2 ^ k>>
Add32(x, y) ==
    LET lo == x[2] + y[2]
    IN <<(x[1] + y[1] + lo \div W16) % W16, lo % W16>>
\* the low 16 bits of a * b
MulLow16(a, b) == ((a % 256) * b + (((a \div 256) * b) % 256) * 256) % W16
Imul32(x, y) ==
    LET p0 == (x[2] % 256) * y[2]
        p1 == (x[2] \div 256) * y[2]
        lo == p0 + (p1 % 256) * 256
        hi == p1 \div 256 + lo \div W16 + MulLow16(x[1], y[2]) + MulLow16(x[2], y[1])
    IN <<hi % W16, lo % W16>>

\* sudoku.js:18-26 mulberry32: one call of the returned function, from the
\* state s of its closure; value / 2^32 is the number returned
mulberry32(s) ==
    LET Line24(t) == Xor32(t, Shr32(t, 14))
        Line23(t) == Xor32(Add32(t, Imul32(Xor32(t, Shr32(t, 7)), Or32(<<0, 61>>, t))), t)
        Line22(s1) == Imul32(Xor32(s1, Shr32(s1, 15)), Or32(<<0, 1>>, s1))
        Line21(s1) == [s |-> s1, value |-> Line24(Line23(Line22(s1)))]
    IN Line21(Add32(s, <<MULBERRY_HIGH, MULBERRY_LOW>>))

\* the seed argument of generate: null, or an integer
NullSeed == [isNull |-> TRUE, value |-> 0]
Seed(n) == [isNull |-> FALSE, value |-> n]

\* a seed that is not used: Math.random stays the generator
Seeded_Ignored(seed) == MathRandom

\* sudoku.js:19 `let s = seed | 0`, the generator generate installs
Seeded(seed) == [kind |-> "mulberry32", s |-> <<seed.value \div W16, seed.value % W16>>]

(***************************************************************************)
(* The code of sudoku.js runs on a record g: rng is the module's variable  *)
(* rng, env the stream of numbers Math.random() gives during this call (in *)
(* thousandths, taken one after the other and then again from the first),  *)
(* ret the value returned, caller the grid the caller holds and may have   *)
(* handed in: a function that writes to its argument writes to it.         *)
(***************************************************************************)
CurGen(stream) ==
    [rng |-> rng, env |-> [stream |-> stream, i |-> 1], ret |-> NoRet,
     caller |-> args.grid]

\* sudoku.js:35-37 a new grid with the cells of grid: what is written to the
\* copy is not written to grid
cloneGrid(grid) == grid

\* Math.floor(rng() * n): the number and the state after the call
Draw(g, n) ==
    IF g.rng.kind = "mulberry32" THEN
        LET Floor(r) ==
                [g |-> [g EXCEPT !.rng.s = r.s],
                 value |-> (r.value[1] * n + (r.value[2] * n) \div W16) \div W16]
        IN Floor(mulberry32(g.rng.s))
    ELSE
        LET e == g.env
        IN [g |-> [g EXCEPT !.env.i = (e.i % Len(e.stream)) + 1],
            value |-> (e.stream[e.i] * n) \div 1000]

\* sudoku.js:31-33: the grid all of whose cells hold 0
createEmptyGrid == CHOOSE grid \in [Cells -> {0}] : TRUE

\* isValid without the test of the box
isValid_NoBox(grid, row, col, num) ==
    /\ \A c \in 0 .. SIDE - 1 : grid[<<row, c>>] # num
    /\ \A r \in 0 .. SIDE - 1 : grid[<<r, col>>] # num

\* sudoku.js:39-54
isValid(grid, row, col, num) ==
    /\ \A c \in 0 .. SIDE - 1 : grid[<<row, c>>] # num
    /\ \A r \in 0 .. SIDE - 1 : grid[<<r, col>>] # num
    /\ LET boxRow == (row \div BOX) * BOX
           boxCol == (col \div BOX) * BOX
       IN \A r \in boxRow .. boxRow + BOX - 1, c \in boxCol .. boxCol + BOX - 1 :
              grid[<<r, c>>] # num

\* sudoku.js:56-62 shuffle, from index i (counted from 0) downwards; an
\* element swapped with itself stays where it is
RECURSIVE shuffleFrom(_, _, _)
shuffleFrom(arr, i, g) ==
    IF i <= 0 THEN [arr |-> arr, g |-> g]
    ELSE
        LET Swap(j, g1) ==
                IF j = i THEN shuffleFrom(arr, i - 1, g1)
                ELSE shuffleFrom([arr EXCEPT ![i + 1] = arr[j + 1], ![j + 1] = arr[i + 1]],
                                 i - 1, g1)
            Line58(d) == Swap(d.value, d.g)
        IN Line58(Draw(g, i + 1))

shuffle(arr, g) == shuffleFrom(arr, Len(arr) - 1, g)

\* the first empty cell in the order of the loops (sudoku.js:65-67, 87-89)
HasEmpty(grid) == \E p \in Cells : grid[p] = 0
FirstEmpty(grid) ==
    CHOOSE p \in Cells : grid[p] = 0 /\ \A q \in Cells : grid[q] = 0 => Idx(p) <= Idx(q)

\* sudoku.js:64-81 fillGrid: tryNums is the loop over the shuffled numbers
\* for the cell p, from the k-th on; nums holds, in their shuffled order,
\* the numbers that pass the isValid test of line 70 (the grid is the same
\* at every turn of the loop, line 73 restores it)
RECURSIVE fillGrid(_, _)
\* the loop that gives up when the first number that fits fails
tryNums_NoBacktrack(grid, p, nums, k, g) ==
    IF k > Len(nums) THEN [ok |-> FALSE, grid |-> grid, g |-> g]
    ELSE fillGrid([grid EXCEPT ![p] = nums[k]], g)

RECURSIVE tryNums(_, _, _, _, _)
tryNums(grid, p, nums, k, g) ==
    IF k > Len(nums) THEN [ok |-> FALSE, grid |-> grid, g |-> g]
    ELSE
        LET Line72(r) == IF r.ok THEN r ELSE tryNums(grid, p, nums, k + 1, r.g)
        IN Line72(fillGrid([grid EXCEPT ![p] = nums[k]], g))

fillGrid(grid, g) ==
    IF ~HasEmpty(grid) THEN [ok |-> TRUE, grid |-> grid, g |-> g]
    ELSE
        LET Line69(p, sh) ==
                tryNums(grid, p, SelectSeq(sh.arr, LAMBDA n : isValid(grid, p[1], p[2], n)),
                        1, sh.g)
        IN Line69(FirstEmpty(grid), shuffle([i \in 1 .. SIDE |-> i], g))

\* sudoku.js:83-105 countSolutions: solveCount is the inner function solve,
\* countNums its loop over the numbers for the cell p, from num on (the
\* count is never negative; the test has TLC compute it before it goes on)
RECURSIVE solveCount(_, _, _)
RECURSIVE countNums(_, _, _, _, _)
countNums(grid, p, num, count, limit) ==
    IF num > SIDE THEN count
    ELSE
        LET Line90(after) ==
                IF after >= 0 THEN countNums(grid, p, num + 1, after, limit) ELSE after
        IN Line90(IF isValid(grid, p[1], p[2], num)
                  THEN solveCount([grid EXCEPT ![p] = num], count, limit)
                  ELSE count)

solveCount(grid, count, limit) ==
    IF count >= limit THEN count
    ELSE IF HasEmpty(grid) THEN countNums(grid, FirstEmpty(grid), 1, count, limit)
    ELSE count + 1

\* countSolutions that stops at the first completion it finds
countSolutions_StopsAtFirst(grid, limit) == solveCount(grid, 0, 1)

\* countSolutions that counts one completion more than the limit
countSolutions_OneMore(grid, limit) == solveCount(cloneGrid(grid), 0, limit + 1)

countSolutions(grid, limit) == solveCount(cloneGrid(grid), 0, limit)

\* countSolutions(grid) called on the caller's grid, limit left to its
\* default 2; the search has run on the copy of line 103
countGrid(g, grid) ==
    [g EXCEPT !.ret = [kind |-> "count", grid |-> grid, count |-> countSolutions(grid, 2)],
              !.caller = grid]

\* the removal loop that counts a cell it has put back as removed
RECURSIVE removeFrom_CountsRestored(_, _, _, _, _)
removeFrom_CountsRestored(puzzle, positions, k, removed, cellsToRemove) ==
    IF k > Len(positions) \/ removed >= cellsToRemove THEN
        [puzzle |-> puzzle, removed |-> removed]
    ELSE
        LET cleared == [puzzle EXCEPT ![positions[k]] = 0]
        IN IF countSolutions(cleared, 2) # 1
           THEN removeFrom_CountsRestored(puzzle, positions, k + 1, removed + 1,
                                          cellsToRemove)
           ELSE removeFrom_CountsRestored(cleared, positions, k + 1, removed + 1,
                                          cellsToRemove)

\* the removal loop without the test of line 134
RECURSIVE removeFrom_NoStop(_, _, _, _, _)
removeFrom_NoStop(puzzle, positions, k, removed, cellsToRemove) ==
    IF k > Len(positions) THEN [puzzle |-> puzzle, removed |-> removed]
    ELSE
        LET cleared == [puzzle EXCEPT ![positions[k]] = 0]
        IN IF countSolutions(cleared, 2) # 1
           THEN removeFrom_NoStop(puzzle, positions, k + 1, removed, cellsToRemove)
           ELSE removeFrom_NoStop(cleared, positions, k + 1, removed + 1, cellsToRemove)

\* sudoku.js:132-142 the removal loop, from the k-th position on
RECURSIVE removeFrom(_, _, _, _, _)
removeFrom(puzzle, positions, k, removed, cellsToRemove) ==
    IF k > Len(positions) \/ removed >= cellsToRemove THEN
        [puzzle |-> puzzle, removed |-> removed]
    ELSE
        LET cleared == [puzzle EXCEPT ![positions[k]] = 0]
        IN IF countSolutions(cleared, 2) # 1
           THEN removeFrom(puzzle, positions, k + 1, removed, cellsToRemove)
           ELSE removeFrom(cleared, positions, k + 1, removed + 1, cellsToRemove)

\* generate without the reset of line 145
generate_NoReset(g0, difficulty, seed) ==
    IF difficulty \in ObjectPrototype THEN
        \* lines 114-118, then line 120 throws
        [g0 EXCEPT !.rng = IF ~seed.isNull THEN Seeded(seed) ELSE MathRandom,
                   !.ret = TypeError]
    ELSE
    LET band == DIFFICULTY(difficulty)
        \* lines 145-153
        Line145(g, solution, r) ==
            [g EXCEPT
                !.ret = [kind |-> "puzzle", puzzle |-> r.puzzle, solution |-> solution,
                         difficulty |-> difficulty, clues |-> CellCount - r.removed,
                         seed |-> seed]]
        \* lines 132-142
        Line132(solution, cellsToRemove, sh) ==
            Line145(sh.g, solution, removeFrom(solution, sh.arr, 1, 0, cellsToRemove))
        \* lines 127-130
        Line127(cellsToRemove, filled) ==
            Line132(filled.grid, cellsToRemove,
                    shuffle([i \in 1 .. CellCount |-> CellAt(i - 1)], filled.g))
        \* lines 121-125: targetClues is d.value + band[1]
        Line121(d) ==
            Line127(CellCount - (d.value + band[1]), fillGrid(createEmptyGrid, d.g))
    IN \* lines 114-118, then the draw of line 121
       Line121(Draw([g0 EXCEPT !.rng = IF ~seed.isNull THEN Seeded(seed) ELSE MathRandom],
                    band[2] - band[1] + 1))

\* sudoku.js:112-154 generate(difficulty, seed)
generate(g0, difficulty, seed) ==
    IF difficulty \in ObjectPrototype THEN
        \* lines 114-118, then line 120 throws
        [g0 EXCEPT !.rng = IF ~seed.isNull THEN Seeded(seed) ELSE MathRandom,
                   !.ret = TypeError]
    ELSE
    LET band == DIFFICULTY(difficulty)
        \* lines 145-153
        Line145(g, solution, r) ==
            [g EXCEPT
                !.rng = MathRandom,
                !.ret = [kind |-> "puzzle", puzzle |-> r.puzzle, solution |-> solution,
                         difficulty |-> difficulty, clues |-> CellCount - r.removed,
                         seed |-> seed]]
        \* lines 132-142
        Line132(solution, cellsToRemove, sh) ==
            Line145(sh.g, solution, removeFrom(solution, sh.arr, 1, 0, cellsToRemove))
        \* lines 127-130
        Line127(cellsToRemove, filled) ==
            Line132(filled.grid, cellsToRemove,
                    shuffle([i \in 1 .. CellCount |-> CellAt(i - 1)], filled.g))
        \* lines 121-125: targetClues is d.value + band[1]
        Line121(d) ==
            Line127(CellCount - (d.value + band[1]), fillGrid(createEmptyGrid, d.g))
    IN \* lines 114-118, then the draw of line 121
       Line121(Draw([g0 EXCEPT !.rng = IF ~seed.isNull THEN Seeded(seed) ELSE MathRandom],
                    band[2] - band[1] + 1))

\* sudoku.js:156-159 solve(grid)
\* solve without the copy of line 157: fillGrid runs on the caller's grid
solve_NoClone(g, grid) ==
    LET Line158(r) ==
            [r.g EXCEPT !.ret = IF r.ok THEN [kind |-> "grid", grid |-> r.grid]
                                ELSE NullRet,
                        !.caller = r.grid]
    IN Line158(fillGrid(grid, g))

solve(g, grid) ==
    LET Line158(r) ==
            [r.g EXCEPT !.ret = IF r.ok THEN [kind |-> "grid", grid |-> r.grid]
                                ELSE NullRet,
                        !.caller = grid]
    IN Line158(fillGrid(cloneGrid(grid), g))

(***************************************************************************)
(* The calls of sudoku.js under study.  args is drawn once: a difficulty   *)
(* and a seed for generate, or a partial grid for solve; stream is what    *)
(* Math.random() gives during one call.                                    *)
(***************************************************************************)
\* the five bands of DIFFICULTY, a name no object knows and a name every
\* object inherits
GenDifficulties ==
    {"easy", "medium", "hard", "expert", "evil", "extreme", "constructor"}
Seeds == {Seed(n) : n \in 0 .. MaxSeed}
Streams == {<<0>>, <<700, 200>>}

\* Partial grids handed to solve: values in three cells of the first row and
\* in the last cell of the second row, every other cell empty.
SolveCells == <<<<0, 0>>, <<0, 1>>, <<0, 2>>, <<1, SIDE - 1>>>>
SolveValues == {0, 1} \X {0, 2} \X {0, 1, 3} \X {0, 3, SIDE}
SolveGrids ==
    {[p \in Cells |-> IF \E i \in 1 .. 4 : SolveCells[i] = p
                      THEN v[CHOOSE i \in 1 .. 4 : SolveCells[i] = p] ELSE 0] :
        v \in SolveValues}

\* a grid with every cell filled and no repeat (row r is 1 .. SIDE rotated)
FilledGrid ==
    [p \in Cells |-> (((p[1] % BOX) * BOX + (p[1] \div BOX) + p[2]) % SIDE) + 1]

\* grids a caller can hand to solve with all cells, or all but the last,
\* filled: FilledGrid, and FilledGrid with its first cell repeating the
\* second of its row
NearlyFilledGrids ==
    {[FilledGrid EXCEPT ![<<0, 0>>] = first, ![<<SIDE - 1, SIDE - 1>>] = last] :
        first \in {FilledGrid[<<0, 0>>], FilledGrid[<<0, 1>>]},
        last \in {0, FilledGrid[<<SIDE - 1, SIDE - 1>>]}}

GenArgs ==
    {[kind |-> "generate", difficulty |-> d, seed |-> sd, grid |-> createEmptyGrid] :
        d \in GenDifficulties, sd \in Seeds}
    \cup {[kind |-> "solve", difficulty |-> "", seed |-> NullSeed, grid |-> grid] :
            grid \in SolveGrids \cup NearlyFilledGrids}

CommitGen(g) ==
    /\ rng' = g.rng
    /\ out' = g.ret
    /\ args' = [args EXCEPT !.grid = g.caller]
    /\ UNCHANGED <<battle, intervals, timeouts, calls, state>>

\* generate(difficulty, seed)
Generate(stream) ==
    /\ args.kind = "generate"
    /\ CommitGen(generate(CurGen(stream), args.difficulty, args.seed))

\* generate(difficulty), the seed left to its default null
GenerateUnseeded(stream) ==
    /\ args.kind = "generate"
    /\ CommitGen(generate(CurGen(stream), args.difficulty, NullSeed))

\* solve(grid) on the grid of args, or on the puzzle generate has returned
\* (the grid handed in is then the puzzle, the grid of args is not in play)
Solve(stream) ==
    \/ /\ args.kind = "solve"
       /\ CommitGen(solve(CurGen(stream), args.grid))
    \/ /\ out.kind = "puzzle"
       /\ CommitGen([solve(CurGen(stream), out.puzzle) EXCEPT !.caller = args.grid])

\* countSolutions(grid) on the grid of args, or on the puzzle generate has
\* returned (the grid of args is then not in play)
CountSolutions ==
    \/ /\ args.kind = "solve"
       /\ CommitGen(countGrid(CurGen(<<0>>), args.grid))
    \/ /\ out.kind = "puzzle"
       /\ CommitGen([countGrid(CurGen(<<0>>), out.puzzle) EXCEPT !.caller = args.grid])

GenInit ==
    /\ battle = NULL
    /\ intervals = {}
    /\ timeouts = {}
    /\ calls = NoCalls
    /\ rng = MathRandom
    /\ args \in GenArgs
    /\ out = NoOut
    /\ state = NoGame

GenNext ==
    \/ \E stream \in Streams : Generate(stream)
    \/ \E stream \in Streams : GenerateUnseeded(stream)
    \/ \E stream \in Streams : Solve(stream)
    \/ CountSolutions

GenSpec == GenInit /\ [][GenNext]_vars

(***************************************************************************)
(* The specification.                                                      *)
(***************************************************************************)
Init ==
    /\ battle = NULL
    /\ intervals = {}
    /\ timeouts = {}
    /\ calls = NoCalls
    /\ rng = MathRandom
    /\ args = NoArgs
    /\ out = NoOut
    /\ state = NoGame

Next ==
    \/ \E d \in Difficulties, data \in GeneratedPuzzles : StartBattle(d, data)
    \/ \E cbs \in CallbackChoices, rnd \in RandomDraws : BeginBattle(cbs, rnd)
    \/ \E t \in intervals : Tick(t)
    \/ \E t \in timeouts, mistake \in BOOLEAN, rnd \in RandomDraws : AIAction(t, mistake, rnd)
    \/ \E p \in Pos, num \in Nums : PlayerPlace(p, num)
    \/ \E p \in Pos : PlayerUseHint(p)
    \/ \E p \in Pos : PlayerErase(p)
    \/ \E callback \in BOOLEAN : PlayerFinish(callback)
    \/ \E callback \in BOOLEAN : QuitBattle(callback)

Spec == Init /\ [][Next]_vars

\* pvp.js:127-135 setInterval(..., 1000): while the interval is set the
\* browser keeps firing its callback, once per second.
FairSpec == Spec /\ WF_vars(\E t \in intervals : Tick(t))

(***************************************************************************)
(* startBattle called again while a session exists.  `battle` is one       *)
(* variable of the module (pvp.js:34): startBattle assigns it a new        *)
(* session and clears no timer, and the callbacks of the timers set for    *)
(* the earlier session read `battle` when they fire.                       *)
(***************************************************************************)
RestartBattle(difficulty, data) ==
    /\ battle.sid < MaxSessions
    /\ Commit(startBattle(Cur, difficulty, data))

RestartNext ==
    \/ \E d \in Difficulties, data \in GeneratedPuzzles : RestartBattle(d, data)
    \/ \E rnd \in RandomDraws : BeginBattle(AllCallbacks, rnd)
    \/ \E t \in intervals : Tick(t)
    \/ \E t \in timeouts, mistake \in BOOLEAN, rnd \in RandomDraws : AIAction(t, mistake, rnd)
    \/ \E callback \in BOOLEAN : QuitBattle(callback)

RestartSpec == Init /\ [][RestartNext]_vars

(***************************************************************************)
(* game.js: the single-player game.  Each function is an operator on the   *)
(* game state st that gives the state it leaves and the value it returns.  *)
(* The game is played on a solved grid with two cells cleared; the player  *)
(* selects one of the two, or a clue next to them, and enters the value of *)
(* one or of the other.  The seconds counter of the timer is left out.     *)
(***************************************************************************)
GameHoles == {<<0, 0>>, <<0, 1>>}
GameData ==
    [puzzle |-> [p \in Cells |-> IF p \in GameHoles THEN 0 ELSE FilledGrid[p]],
     solution |-> FilledGrid]
GameCells == GameHoles \cup {<<1, 0>>}
GameNums == {FilledGrid[p] : p \in GameHoles}

\* selectedCell: null
NoCell == <<>>
NoNotes == CHOOSE notes \in [Cells -> {{}}] : TRUE

Result(st, value) == [state |-> st, ret |-> value]

\* game.js:290-307 the fields written to localStorage
saveToLocalStorage(st) ==
    [st EXCEPT !.saved = [puzzle |-> st.puzzle, notes |-> st.notes,
                          history |-> st.history, redoStack |-> st.redoStack,
                          mistakes |-> st.mistakes, hintsUsed |-> st.hintsUsed]]

\* game.js:270-275
stopTimer(st) == [st EXCEPT !.timerInterval = FALSE]

\* game.js:34-65
newGame(data) ==
    saveToLocalStorage(
        [kind |-> "game",
         puzzle |-> data.puzzle,
         solution |-> data.solution,
         original |-> data.puzzle,
         selectedCell |-> NoCell,
         notesMode |-> FALSE,
         notes |-> NoNotes,
         history |-> <<>>,
         redoStack |-> <<>>,
         mistakes |-> 0,
         hintsUsed |-> 0,
         timerInterval |-> TRUE,
         gameOver |-> FALSE,
         won |-> FALSE,
         saved |-> NoGame])

\* game.js:70-72
selectCell(st, p) == [st EXCEPT !.selectedCell = p]

\* game.js:77-79
isOriginalCell(st, p) == st.original[p] # 0

\* game.js:231-234
pushHistory(st, p, oldVal, newVal) ==
    [st EXCEPT !.history = Append(@, [row |-> p[1], col |-> p[2],
                                      oldVal |-> oldVal, newVal |-> newVal]),
               !.redoStack = <<>>]

\* game.js:247-254
checkWin(st) == \A p \in Cells : st.puzzle[p] = st.solution[p]

\* game.js:149-162
clearRelatedNotes(st, p, num) ==
    [st EXCEPT !.notes =
        [q \in Cells |->
            IF \/ q[1] = p[1]
               \/ q[2] = p[2]
               \/ /\ q[1] \div BOX = p[1] \div BOX
                  /\ q[2] \div BOX = p[2] \div BOX
            THEN st.notes[q] \ {num} ELSE st.notes[q]]]

\* game.js:134-144
toggleNote(st, p, num) ==
    IF st.puzzle[p] # 0 THEN Result(st, NullRet)
    ELSE LET st1 == IF num \in st.notes[p]
                    THEN [st EXCEPT !.notes[p] = @ \ {num}]
                    ELSE [st EXCEPT !.notes[p] = @ \cup {num}]
         IN Result(saveToLocalStorage(st1), [kind |-> "note"])

\* game.js:84-129
placeNumber(st, num, autoNotes) ==
    IF st.gameOver \/ st.selectedCell = NoCell THEN Result(st, NullRet)
    ELSE LET p == st.selectedCell IN
    IF isOriginalCell(st, p) THEN Result(st, NullRet)
    ELSE IF st.notesMode THEN toggleNote(st, p, num)
    ELSE
        LET isCorrect == (num = st.solution[p])
            st1 == pushHistory(st, p, st.puzzle[p], num)
            st2 == [st1 EXCEPT !.notes[p] = {}, !.puzzle[p] = num]
            st3 == IF ~isCorrect THEN
                       LET m == [st2 EXCEPT !.mistakes = @ + 1]
                       IN IF m.mistakes >= MAX_MISTAKES
                          THEN stopTimer([m EXCEPT !.gameOver = TRUE, !.won = FALSE])
                          ELSE m
                   ELSE IF autoNotes THEN clearRelatedNotes(st2, p, num)
                   ELSE st2
            st4 == IF ~st3.gameOver /\ checkWin(st3)
                   THEN stopTimer([st3 EXCEPT !.gameOver = TRUE, !.won = TRUE])
                   ELSE st3
        IN Result(saveToLocalStorage(st4),
                  [kind |-> "place", isCorrect |-> isCorrect,
                   gameOver |-> st4.gameOver, won |-> st4.won])

\* game.js:167-176
eraseCell(st) ==
    IF st.gameOver \/ st.selectedCell = NoCell THEN Result(st, NoRet)
    ELSE LET p == st.selectedCell IN
    IF isOriginalCell(st, p) THEN Result(st, NoRet)
    ELSE
        LET st1 == pushHistory(st, p, st.puzzle[p], 0)
            st2 == [st1 EXCEPT !.puzzle[p] = 0, !.notes[p] = {}]
        IN Result(saveToLocalStorage(st2), NoRet)

\* game.js:181-205
useHint(st) ==
    IF st.gameOver \/ st.selectedCell = NoCell THEN Result(st, NullRet)
    ELSE IF st.hintsUsed >= MAX_HINTS THEN Result(st, NullRet)
    ELSE LET p == st.selectedCell IN
    IF isOriginalCell(st, p) THEN Result(st, NullRet)
    ELSE IF st.puzzle[p] = st.solution[p] THEN Result(st, NullRet)
    ELSE
        LET correct == st.solution[p]
            st1 == pushHistory([st EXCEPT !.hintsUsed = @ + 1], p, st.puzzle[p], correct)
            st2 == clearRelatedNotes([st1 EXCEPT !.puzzle[p] = correct, !.notes[p] = {}],
                                     p, correct)
            st3 == IF checkWin(st2)
                   THEN stopTimer([st2 EXCEPT !.gameOver = TRUE, !.won = TRUE])
                   ELSE st2
        IN Result(saveToLocalStorage(st3),
                  [kind |-> "hint", value |-> correct,
                   hintsRemaining |-> MAX_HINTS - st3.hintsUsed])

\* game.js:210-217
undo(st) ==
    IF st.gameOver \/ Len(st.history) = 0 THEN Result(st, NullRet)
    ELSE
        LET action == st.history[Len(st.history)]
            st1 == [st EXCEPT !.history = SubSeq(@, 1, Len(@) - 1),
                              !.redoStack = Append(@, action),
                              !.puzzle[<<action.row, action.col>>] = action.oldVal]
        IN Result(saveToLocalStorage(st1), action)

\* redo that writes the value the action replaced
redo_WritesOldValue(st) ==
    IF st.gameOver \/ Len(st.redoStack) = 0 THEN Result(st, NullRet)
    ELSE
        LET action == st.redoStack[Len(st.redoStack)]
            st1 == [st EXCEPT !.redoStack = SubSeq(@, 1, Len(@) - 1),
                              !.history = Append(@, action),
                              !.puzzle[<<action.row, action.col>>] = action.oldVal]
        IN Result(saveToLocalStorage(st1), action)

\* game.js:222-229
redo(st) ==
    IF st.gameOver \/ Len(st.redoStack) = 0 THEN Result(st, NullRet)
    ELSE
        LET action == st.redoStack[Len(st.redoStack)]
            st1 == [st EXCEPT !.redoStack = SubSeq(@, 1, Len(@) - 1),
                              !.history = Append(@, action),
                              !.puzzle[<<action.row, action.col>>] = action.newVal]
        IN Result(saveToLocalStorage(st1), action)

\* game.js:239-242
toggleNotesMode(st) == [st EXCEPT !.notesMode = ~@]

CommitGame(st) ==
    /\ Len(st.history) <= MaxHistory
    /\ state' = st
    /\ UNCHANGED <<battle, intervals, timeouts, calls, rng, args, out>>

NewGame(data) == CommitGame(newGame(data))

SelectCell(p) ==
    /\ state # NoGame
    /\ CommitGame(selectCell(state, p))

ToggleNotesMode ==
    /\ state # NoGame
    /\ CommitGame(toggleNotesMode(state))

PlaceNumber(num, autoNotes) ==
    /\ state # NoGame
    /\ CommitGame(placeNumber(state, num, autoNotes).state)

EraseCell ==
    /\ state # NoGame
    /\ CommitGame(eraseCell(state).state)

UseHint ==
    /\ state # NoGame
    /\ CommitGame(useHint(state).state)

Undo ==
    /\ state # NoGame
    /\ CommitGame(undo(state).state)

Redo ==
    /\ state # NoGame
    /\ CommitGame(redo(state).state)

GameNext ==
    \/ NewGame(GameData)
    \/ \E p \in GameCells : SelectCell(p)
    \/ ToggleNotesMode
    \/ \E num \in GameNums, autoNotes \in BOOLEAN : PlaceNumber(num, autoNotes)
    \/ EraseCell
    \/ UseHint
    \/ Undo
    \/ Redo

GameSpec == Init /\ [][GameNext]_vars

(***************************************************************************)
(* Properties of the battle session.  A property of one call is stated on  *)
(* the state the call is made in: the operator of the call is applied to   *)
(* Cur and its result is compared with what the property expects.          *)
(***************************************************************************)
\* the human side can still move: a session exists, not ended, not finished
CanMove == battle # NULL /\ ~battle.ended /\ ~battle.playerFinished

\* C1: the ended flag of a session goes from false to true at most once and
\* never back; result and eloDelta are written by the step that sets ended,
\* the first termination, and by no other step, whatever terminating events
\* (playerFinish, quitBattle, clock at zero, opponent's last cell) follow.
C1_EndedOnce ==
    [][battle # NULL =>
         /\ battle.ended =>
              /\ battle'.ended
              /\ battle'.result = battle.result
              /\ battle'.eloDelta = battle.eloDelta
         /\ (\/ battle'.ended # battle.ended
             \/ battle'.result # battle.result
             \/ battle'.eloDelta # battle.eloDelta)
            => ~battle.ended /\ battle'.ended]_vars

\* C1 witness: a session ended by a forfeit or by the opponent (delta -25)
\* while the clock stands at zero, so that a timeout was due as well.
C1_Witness ==
    /\ battle # NULL
    /\ battle.ended
    /\ battle.timeRemaining = 0
    /\ battle.eloDelta = -25

\* C2: for a session that has ended Player.updateELO has run exactly once
\* and the termination callback exactly once (when the terminating call was
\* given one); for a session that has not ended neither has run.
C2_HandOffOnce ==
    battle # NULL =>
        /\ calls.elo = IF battle.ended THEN 1 ELSE 0
        /\ calls.end = IF battle.ended /\ calls.supplied THEN 1 ELSE 0

\* C2 witness: an ended session whose hand-off and callback have both run.
C2_Witness ==
    /\ battle # NULL
    /\ battle.ended
    /\ calls.elo = 1
    /\ calls.end = 1

\* C3: once a session has ended, no later step changes any field of it.
C3_NoChangeAfterEnd ==
    [][battle # NULL /\ battle.ended => battle' = battle]_vars

\* playerPlace(p, num) writes the last missing correct value while time remains
CompletesGrid(p, num) ==
    /\ CanMove
    /\ battle.timeRemaining > 0
    /\ battle.original[p] = 0
    /\ num = battle.solution[p]
    /\ \A q \in Pos \ {p} : battle.playerBoard[q] = battle.solution[q]

C5_OpponentFinish ==
    (battle # NULL /\ ~battle.ended
        /\ battle.aiCellsFilled + 1 = battle.aiTotalCells) =>
    \A t \in timeouts, rnd \in RandomDraws :
        LET s == aiAction(Cur, t, FALSE, rnd)
            b == s.battle
        IN /\ b.aiCellsFilled = b.aiTotalCells
           /\ b.aiFinished
           /\ IF ~battle.playerFinished
              THEN b.ended /\ b.result = "lose" /\ b.eloDelta = -25
              ELSE /\ ~b.ended
                   /\ b.result = "null"
                   /\ s.timeouts = timeouts \ {t}

\* C5 witness: both sides finished, the session still running, nothing
\* scheduled for the opponent.
C5_Witness ==
    /\ battle # NULL
    /\ battle.aiFinished
    /\ battle.playerFinished
    /\ ~battle.ended
    /\ timeouts = {}

\* the outcome that the comparison of the two fill counters alone gives
ByCounters(b) ==
    IF b.playerCellsFilled > b.aiCellsFilled THEN <<"win", 15>>
    ELSE IF b.aiCellsFilled > b.playerCellsFilled THEN <<"lose", -15>>
    ELSE <<"draw", 0>>

\* the clock tick t brings the clock of a running session to zero
ClockRunsOut(t) ==
    /\ battle # NULL
    /\ ~battle.ended
    /\ t \in intervals
    /\ battle.timeRemaining <= 1

C8_PlaceBeforeBegin ==
    (battle # NULL /\ ~battle.started) =>
    \A p \in Pos, num \in Nums :
        LET b == playerPlace(Cur, p, num).battle
        IN /\ b.playerBoard = battle.playerBoard
           /\ b.playerCellsFilled = battle.playerCellsFilled
           /\ b.playerMistakes = battle.playerMistakes
           /\ b.timeRemaining = battle.timeRemaining
           /\ b.aiHints = battle.aiHints

\* what an incorrect or a correct placement on a non-clue cell does to the
\* mistakes, the clock and the opponent's hint credits
PlaceBookkeeping ==
    CanMove =>
    \A p \in Pos, num \in Nums :
        battle.original[p] = 0 =>
            LET b == playerPlace(Cur, p, num).battle
            IN IF num # battle.solution[p]
               THEN /\ b.playerMistakes = battle.playerMistakes + 1
                    /\ b.timeRemaining =
                           IF battle.timeRemaining >= 5
                           THEN battle.timeRemaining - 5 ELSE 0
                    /\ b.aiHints =
                           IF (battle.playerMistakes + 1) % 3 = 0
                           THEN battle.aiHints + 1 ELSE battle.aiHints
               ELSE /\ b.playerMistakes = battle.playerMistakes
                    /\ b.timeRemaining = battle.timeRemaining
                    /\ b.aiHints = battle.aiHints

\* the opponent's hint credits grow only by one, in a step that makes the
\* human's mistakes a multiple of three
HintOnlyOnThirdMistake ==
    [][(battle # NULL /\ battle'.aiHints > battle.aiHints) =>
          /\ battle'.aiHints = battle.aiHints + 1
          /\ battle'.playerMistakes = battle.playerMistakes + 1
          /\ battle'.playerMistakes % 3 = 0]_vars

\* C9: an incorrect placement on a non-clue cell adds one to the human's
\* mistakes, takes 5 seconds off the clock (not below zero) and gives the
\* opponent one hint credit exactly when it is a third mistake; a correct
\* placement changes none of the three; the opponent's credits grow at no
\* other time.
C9_MistakeBookkeeping == []PlaceBookkeeping /\ HintOnlyOnThirdMistake

\* C9 witness: three human mistakes have earned the opponent its one credit.
C9_Witness ==
    /\ battle # NULL
    /\ battle.playerMistakes = 3
    /\ battle.aiHints = 1

\* C10: playerUseHint on a non-clue cell that does not hold the correct
\* value, with a credit left, takes one credit, writes the solution value,
\* adds one to the fill counter and sets finished exactly when the grid is
\* then solved; with no credit, on a clue cell or on a correct cell it
\* returns null and changes nothing.
C10_UseHint ==
    CanMove =>
    \A p \in Pos :
        LET s == playerUseHint(Cur, p)
            solved == \A q \in Pos \ {p} : battle.playerBoard[q] = battle.solution[q]
        IN IF /\ battle.playerHints > 0
              /\ battle.original[p] = 0
              /\ battle.playerBoard[p] # battle.solution[p]
           THEN s.battle = [battle EXCEPT !.playerHints = @ - 1,
                                          !.playerBoard[p] = battle.solution[p],
                                          !.playerCellsFilled = @ + 1,
                                          !.playerFinished = solved]
           ELSE s.battle = battle /\ s.ret = NullRet

\* C10 witness: a hint credit earned from the opponent's mistakes has been
\* spent and the grid is solved.
C10_Witness ==
    /\ battle # NULL
    /\ battle.playerHints < battle.aiMistakes \div 3
    /\ battle.playerFinished
    /\ AllFilled(battle)

\* C11: playerErase on a non-clue cell of a session that has not ended
\* empties the cell and takes one off the fill counter exactly when the cell
\* held the correct value; on a clue cell it changes nothing; no other cell,
\* counter, clock, opponent field or timer is changed.
C11_Erase ==
    (battle # NULL /\ ~battle.ended) =>
    \A p \in Pos :
        LET s == playerErase(Cur, p)
        IN /\ s.battle =
                  IF battle.original[p] # 0 THEN battle
                  ELSE [battle EXCEPT
                          !.playerBoard[p] = 0,
                          !.playerCellsFilled =
                              IF battle.playerBoard[p] = battle.solution[p]
                              THEN @ - 1 ELSE @]
           /\ s.intervals = intervals
           /\ s.timeouts = timeouts
           /\ s.calls = calls

\* C11 witness: every placement was correct (no mistake, no hint was ever
\* granted), the fill counter still counts one, and every non-clue cell is
\* empty again: a cell holding the correct value has been erased.
C11_Witness ==
    /\ battle # NULL
    /\ ~battle.ended
    /\ battle.playerBoard = battle.original
    /\ battle.playerMistakes = 0
    /\ battle.aiMistakes = 0
    /\ battle.playerCellsFilled = 1

\* C12: every invalid move attempt (a place, hint or erase aimed at a clue
\* cell, a hint with no credit, any move with no session, any move on a
\* session that has ended or whose human side is finished) returns null (a
\* hint or a place) or nothing (an erase) and leaves the whole state as it
\* was.
C12_InvalidMoves ==
    \A p \in Pos, num \in Nums :
        LET dead == battle = NULL \/ battle.ended \/ battle.playerFinished
            clue == battle # NULL /\ battle.original[p] # 0
            broke == battle # NULL /\ battle.playerHints <= 0
        IN /\ (dead \/ clue) => playerPlace(Cur, p, num) = Return(Cur, NullRet)
           /\ (dead \/ clue \/ broke) => playerUseHint(Cur, p) = Return(Cur, NullRet)
           /\ (dead \/ clue) => playerErase(Cur, p) = Cur

\* C13: once playerFinished is true no step changes the human's working
\* grid, fill counter or mistakes or takes a hint credit from the human,
\* even while the session has not ended; once aiFinished is true no step
\* changes the opponent's fill counter or mistakes.
C13_FrozenOnceFinished ==
    [][battle # NULL =>
         /\ battle.playerFinished =>
              /\ battle'.playerBoard = battle.playerBoard
              /\ battle'.playerCellsFilled = battle.playerCellsFilled
              /\ battle'.playerMistakes = battle.playerMistakes
              /\ battle'.playerHints >= battle.playerHints
         /\ battle.aiFinished =>
              /\ battle'.aiCellsFilled = battle.aiCellsFilled
              /\ battle'.aiMistakes = battle.aiMistakes]_vars

(***************************************************************************)
(* What the claims about sudoku.js speak of, said without the code's own   *)
(* test isValid or its search: the rows, columns and boxes as sets of      *)
(* cells, and the completions of a grid found row by row.                  *)
(***************************************************************************)
Units ==
    {{<<r, c>> : c \in 0 .. SIDE - 1} : r \in 0 .. SIDE - 1}
    \cup {{<<r, c>> : r \in 0 .. SIDE - 1} : c \in 0 .. SIDE - 1}
    \cup {{<<br * BOX + r, bc * BOX + c>> : r \in 0 .. BOX - 1, c \in 0 .. BOX - 1} :
            br \in 0 .. BOX - 1, bc \in 0 .. BOX - 1}

\* no value other than 0 stands twice in a row, a column or a box
NoRepeat(grid) ==
    \A u \in Units : \A p \in u, q \in u : p # q /\ grid[p] # 0 => grid[p] # grid[q]

\* every cell holds one of the values 1 .. SIDE
Complete(grid) == \A p \in Cells : grid[p] \in 1 .. SIDE

\* grid keeps every value of partial
Extends(grid, partial) == \A p \in Cells : partial[p] # 0 => grid[p] = partial[p]

NonZeroCells(grid) == {p \in Cells : grid[p] # 0}

\* the ways to complete row r of grid with distinct values
RowFills(grid, r) ==
    {f \in [0 .. SIDE - 1 -> 1 .. SIDE] :
        /\ \A c \in 0 .. SIDE - 1 : grid[<<r, c>>] # 0 => f[c] = grid[<<r, c>>]
        /\ \A c \in 0 .. SIDE - 1, e \in 0 .. SIDE - 1 : c # e => f[c] # f[e]}

\* the complete grids without repeats that keep the values of grid, rows
\* below r already complete
RECURSIVE CompletionsFrom(_, _)
CompletionsFrom(grid, r) ==
    IF ~NoRepeat(grid) THEN {}
    ELSE IF r = SIDE THEN {grid}
    ELSE UNION {CompletionsFrom([p \in Cells |-> IF p[1] = r THEN f[p[2]] ELSE grid[p]],
                                r + 1) : f \in RowFills(grid, r)}

Completions(grid) == CompletionsFrom(grid, 0)

\* C15: whatever the difficulty and the seed, the puzzle generate returns
\* has exactly one completion, the uniqueness counter returns 1 on it, and
\* that completion is the solution returned with it.
C15_UniqueCompletion ==
    out.kind = "puzzle" =>
        /\ countSolutions(out.puzzle, 2) = 1
        /\ Completions(out.puzzle) = {out.solution}

\* C15 witness: a seeded generate has returned a puzzle with empty cells.
C15_Witness ==
    /\ out.kind = "puzzle"
    /\ ~out.seed.isNull
    /\ NonZeroCells(out.puzzle) # Cells

\* C16: generate is deterministic in the band and the seed: after a seeded
\* call has returned, a call with the same band and the same seed returns
\* the same puzzle, solution and clue count, whatever Math.random gives, be
\* it made at once, after an unseeded generate or after a solve.
C16_Deterministic ==
    out.kind = "puzzle" /\ ~out.seed.isNull =>
        \A stream \in Streams :
            \A before \in {CurGen(stream),
                           generate(CurGen(stream), out.difficulty, NullSeed),
                           solve(CurGen(stream), out.puzzle)} :
                LET again == generate(before, out.difficulty, out.seed).ret
                IN /\ again.puzzle = out.puzzle
                   /\ again.solution = out.solution
                   /\ again.clues = out.clues

\* C16 witness: a call with the largest seed has returned a puzzle of the
\* sparsest band.
C16_Witness ==
    /\ out.kind = "puzzle"
    /\ out.seed = Seed(MaxSeed)
    /\ out.difficulty = "evil"

\* the targets generate can have drawn for the result ret: the one its seed
\* gives, or one a stream of Math.random gives
TargetsOf(ret) ==
    LET band == DIFFICULTY(ret.difficulty)
        first == IF ret.seed.isNull THEN {CurGen(stream) : stream \in Streams}
                 ELSE {[CurGen(<<0>>) EXCEPT !.rng = Seeded(ret.seed)]}
    IN {Draw(g, band[2] - band[1] + 1).value + band[1] : g \in first}

\* C17: the clue count generate returns is never below the minimum of the
\* band asked for: a target was drawn within the band and no more cells
\* were removed than the cells above the target; and the clue count is
\* above the band's maximum only when no clue left in the puzzle can be
\* cleared without the puzzle losing its one completion.
C17_ClueCount ==
    out.kind = "puzzle" =>
        LET band == DIFFICULTY(out.difficulty)
        IN /\ out.clues >= band[1]
           /\ \E target \in TargetsOf(out) :
                 /\ band[1] <= target /\ target <= band[2]
                 /\ CellCount - out.clues <= CellCount - target
           /\ out.clues > band[2] =>
                 \A p \in NonZeroCells(out.puzzle) :
                     Cardinality(Completions([out.puzzle EXCEPT ![p] = 0])) # 1

\* C17 witness: generate has returned more clues than the maximum of the
\* band.
C17_Witness ==
    /\ out.kind = "puzzle"
    /\ out.clues > DIFFICULTY(out.difficulty)[2]

\* C18: every solution generate returns is a complete grid, no cell empty,
\* in which no value repeats in a row, a column or a box.
C18_SolutionValid ==
    out.kind = "puzzle" => Complete(out.solution) /\ NoRepeat(out.solution)

\* C18 witness: an unseeded generate has returned a puzzle and its solution.
C18_Witness ==
    /\ out.kind = "puzzle"
    /\ out.seed.isNull
    /\ \E p \in Cells : out.solution[p] = SIDE

\* C19: in every puzzle generate returns each cell that is not empty holds
\* the value of the same cell of the solution, and the clue count reported
\* is the number of cells that are not empty.
C19_CluesOfSolution ==
    out.kind = "puzzle" =>
        /\ \A p \in Cells : out.puzzle[p] # 0 => out.puzzle[p] = out.solution[p]
        /\ out.clues = Cardinality(NonZeroCells(out.puzzle))

\* C19 witness: a puzzle has been returned in which some cells were emptied
\* and more clues are left than the minimum of the band.
C19_Witness ==
    /\ out.kind = "puzzle"
    /\ out.clues < CellCount
    /\ out.clues > DIFFICULTY(out.difficulty)[1]

\* C20: solve returns null only if the grid handed to it is itself invalid:
\* for every partial grid in which no value other than 0 repeats in a row,
\* a column or a box, solve returns a completed grid.
C20_NullOnlyIfRepeats ==
    args.kind = "solve" /\ out.kind \in {"grid", "null"} /\ NoRepeat(args.grid) =>
        out.kind = "grid" /\ Complete(out.grid)

\* C20 as amended: for every partial grid in which no value other than 0
\* repeats, solve returns null exactly when the grid has no completion (a
\* grid without repeats can have none), and otherwise returns a complete
\* grid without repeats that keeps every value given; on a puzzle generate
\* has returned, solve never returns null.
C20_NullIffNoCompletion ==
    /\ args.kind = "solve" /\ out.kind \in {"grid", "null"} /\ NoRepeat(args.grid) =>
          IF Completions(args.grid) = {} THEN out = NullRet
          ELSE out.kind = "grid" /\ out.grid \in Completions(args.grid)
    /\ args.kind = "generate" /\ out.kind \in {"grid", "null"} =>
          out.kind = "grid" /\ Complete(out.grid) /\ NoRepeat(out.grid)

\* C20 witness: solve has returned null on a grid without repeats.
C20_Witness ==
    /\ args.kind = "solve"
    /\ NoRepeat(args.grid)
    /\ out = NullRet

C21_CappedCount ==
    /\ [](out.kind = "count" /\ NoRepeat(out.grid) =>
            LET n == Cardinality(Completions(out.grid))
            IN out.count = IF n < 2 THEN n ELSE 2)
    /\ [][out'.kind = "count" => args'.grid = args.grid]_vars

\* C21 witness: countSolutions has returned 2 on a grid without repeats that
\* has more than two completions.
C21_Witness ==
    /\ out.kind = "count"
    /\ NoRepeat(out.grid)
    /\ out.count = 2
    /\ Cardinality(Completions(out.grid)) > 2

\* C22: after generate has returned, called with a seed or without one, the
\* active generator is Math.random again: a solve that follows draws what
\* it would draw had no seed ever been given.
C22_RngReset ==
    /\ out.kind = "puzzle" => rng = MathRandom
    /\ out.kind = "puzzle" =>
          \A stream \in Streams :
              solve(CurGen(stream), out.puzzle).ret
                  = solve([CurGen(stream) EXCEPT !.rng = MathRandom], out.puzzle).ret

\* C22 witness: a seeded generate has returned and Math.random is the
\* active generator.
C22_Witness ==
    /\ out.kind = "puzzle"
    /\ ~out.seed.isNull
    /\ out.difficulty = "medium"
    /\ rng = MathRandom

\* the names of the bands DIFFICULTY and AI_SPEED define
BandNames == {"easy", "medium", "hard", "expert", "evil"}

\* C23: generate called with a name that is none of the bands does not
\* fail: it uses the medium band, so the clue count is at least the medium
\* minimum (30 of 81 cells), the puzzle is the one the name medium gives
\* with the same seed, and it has the one completion returned with it;
\* startBattle with such a name uses the medium pacing parameters.
C23_UnknownBandIsMedium ==
    args.kind = "generate" /\ args.difficulty \notin BandNames
    /\ out.kind \in {"puzzle", "TypeError"} =>
        /\ out.kind = "puzzle"
        /\ out.clues >= Clues(30)
        /\ Completions(out.puzzle) = {out.solution}
        /\ ~out.seed.isNull =>
              \A stream \in Streams :
                  LET medium == generate(CurGen(stream), "medium", out.seed).ret
                  IN /\ medium.puzzle = out.puzzle
                     /\ medium.solution = out.solution
                     /\ medium.clues = out.clues
        /\ startBattle(Cur, out.difficulty, out).battle.aiSpeed
              = [base |-> 5000, variance |-> 2000]

\* What a callback cannot see being different: the session, the timers
\* pending (whatever callbacks they hold) and the calls of Player.updateELO.
SessionOf(s) ==
    [battle |-> s.battle,
     intervals |-> {t.id : t \in s.intervals},
     timeouts |-> {t.id : t \in s.timeouts},
     elo |-> s.calls.elo]

\* the timer t, and the state s, with the callbacks cbs in every timer
RebindTimer(t, cbs) == [t EXCEPT !.cbs = cbs]
Rebind(s, cbs) ==
    [s EXCEPT !.intervals = {RebindTimer(t, cbs) : t \in @},
              !.timeouts = {RebindTimer(t, cbs) : t \in @}]

\* C24: the trajectory of a session does not depend on which callbacks are
\* supplied: from the same session, the same event with the same draws
\* leads to the same session (counters, clock, ended, result, rating
\* delta, timers pending), whatever callbacks beginBattle, the timers,
\* playerFinish and quitBattle were handed.
C24_CallbacksDoNotSteer ==
    \A cbs \in CallbackChoices :
        /\ \A rnd \in RandomDraws :
              SessionOf(beginBattle(Cur, cbs, rnd))
                  = SessionOf(beginBattle(Cur, AllCallbacks, rnd))
        /\ \A t \in intervals :
              SessionOf(tick(Rebind(Cur, cbs), RebindTimer(t, cbs)))
                  = SessionOf(tick(Cur, t))
        /\ \A t \in timeouts, mistake \in BOOLEAN, rnd \in RandomDraws :
              SessionOf(aiAction(Rebind(Cur, cbs), RebindTimer(t, cbs), mistake, rnd))
                  = SessionOf(aiAction(Cur, t, mistake, rnd))
        /\ SessionOf(playerFinish(Cur, TRUE)) = SessionOf(playerFinish(Cur, FALSE))
        /\ SessionOf(quitBattle(Cur, TRUE)) = SessionOf(quitBattle(Cur, FALSE))

\* C24 witness: a session begun without callbacks has run to its end on
\* the clock and has its result.
C24_Witness ==
    /\ battle # NULL
    /\ battle.ended
    /\ battle.timeRemaining <= 0
    /\ battle.result # "null"
    /\ calls.elo = 1
    /\ calls.end = 0
    /\ ~calls.supplied

\* C25: `started` is entered once and never left, and a second beginBattle
\* starts nothing more: a session not started has no timer, a session
\* started and not ended has exactly one countdown clock, and a session
\* started, not ended and with the opponent not finished has exactly one
\* opponent action pending.
C25_StartedOnce ==
    /\ [](battle # NULL =>
            /\ ~battle.started => intervals = {} /\ timeouts = {}
            /\ battle.started /\ ~battle.ended => Cardinality(intervals) = 1
            /\ battle.started /\ ~battle.ended /\ ~battle.aiFinished =>
                  Cardinality(timeouts) = 1
            /\ Cardinality(intervals) <= 1 /\ Cardinality(timeouts) <= 1
            /\ battle.started =>
                  \A cbs \in CallbackChoices, rnd \in RandomDraws :
                      beginBattle(Cur, cbs, rnd) = Cur)
    /\ [][battle # NULL /\ battle.started => battle'.started]_vars

\* C25 witness: in a session under way the opponent has made a move and
\* one clock and one opponent action are pending.
C25_Witness ==
    /\ battle # NULL
    /\ battle.started /\ ~battle.ended /\ ~battle.aiFinished
    /\ battle.aiCellsFilled > 0
    /\ battle.timeRemaining < BATTLE_TIME
    /\ Cardinality(intervals) = 1
    /\ Cardinality(timeouts) = 1

\* the human gains a hint credit in a step only by one, and only in a
\* step that takes the opponent's mistakes to a multiple of three
HintCreditOnlyOnThirdMistake ==
    [][battle # NULL /\ battle'.playerHints > battle.playerHints =>
          /\ battle'.playerHints = battle.playerHints + 1
          /\ battle'.aiMistakes = battle.aiMistakes + 1
          /\ battle'.aiMistakes % HINT_EVERY = 0]_vars

\* C26: every opponent action resolved as a mistake adds one to the
\* opponent's mistakes, sets the streak and the burst counter to zero,
\* records the time of the mistake and leaves the opponent's fill counter
\* as it was; the human gains exactly one hint credit on every third
\* opponent mistake and at no other time.
C26_MistakeEffects ==
    /\ [](battle # NULL /\ ~battle.ended =>
            \A t \in timeouts, rnd \in RandomDraws :
                LET b == aiAction(Cur, t, TRUE, rnd).battle
                IN /\ b.aiMistakes = battle.aiMistakes + 1
                   /\ b.aiConsecutiveSolves = 0
                   /\ b.aiBurstRemaining = 0
                   /\ b.aiLastMistakeAt # 0
                   /\ b.aiCellsFilled = battle.aiCellsFilled
                   /\ b.playerHints = battle.playerHints
                        + (IF b.aiMistakes % HINT_EVERY = 0 THEN 1 ELSE 0))
    /\ HintCreditOnlyOnThirdMistake

\* C26 as amended: as C26, but the burst counter is zero after the action
\* only if the delay computation that follows the mistake starts no new
\* burst; it starts one (2 plus its draw) when it does not take the hint
\* path, the phase is normal and its burst draw succeeds.  The burst that
\* was under way is over in either case.
C26_MistakeBreaksBurst ==
    /\ [](battle # NULL /\ ~battle.ended =>
            \A t \in timeouts, rnd \in RandomDraws :
                LET b == aiAction(Cur, t, TRUE, rnd).battle
                    hintPath == battle.aiHints > 0 /\ rnd.hintFlip
                    newBurst == /\ ~hintPath
                                /\ PhaseOf([battle EXCEPT !.aiConsecutiveSolves = 0])
                                     = "normal"
                                /\ rnd.burstStart
                IN /\ b.aiMistakes = battle.aiMistakes + 1
                   /\ b.aiConsecutiveSolves = 0
                   /\ b.aiBurstRemaining = IF newBurst THEN 2 + rnd.burstDraw ELSE 0
                   /\ b.aiLastMistakeAt # 0
                   /\ b.aiCellsFilled = battle.aiCellsFilled
                   /\ b.playerHints = battle.playerHints
                        + (IF b.aiMistakes % HINT_EVERY = 0 THEN 1 ELSE 0))
    /\ HintCreditOnlyOnThirdMistake

\* C26 witness: the opponent's third mistake, made in the middle of a
\* burst, has given the human a hint credit, and the delay computation
\* after it has started a new burst.
C26_Witness ==
    /\ battle # NULL
    /\ battle.aiMistakes = HINT_EVERY
    /\ battle.playerHints = 1
    /\ battle.aiLastMistakeAt # 0
    /\ battle.aiConsecutiveSolves = 0
    /\ battle.aiBurstRemaining = 2

\* C27: in every delay computation that does not take the hint path the
\* phase is set from the opponent's progress p = filled / total and its
\* streak, in this order: warmup if p < 0.12, else focused if p > 0.85,
\* else fatigue if the streak is above 8, else normal; and when the phase
\* is set to fatigue the streak is zero when the computation is over.
C27_PhasePriority ==
    [][out'.kind = "delays" /\ out'.delays # {} /\ ~out'.hint =>
          LET filled == battle'.aiCellsFilled
              total == battle'.aiTotalCells
              streak == IF battle'.aiMistakes > battle.aiMistakes THEN 0
                        ELSE IF filled > battle.aiCellsFilled
                        THEN battle.aiConsecutiveSolves + 1
                        ELSE battle.aiConsecutiveSolves
          IN /\ battle'.aiPhase =
                    IF 100 * filled < 12 * total THEN "warmup"
                    ELSE IF 100 * filled > 85 * total THEN "focused"
                    ELSE IF streak > 8 THEN "fatigue"
                    ELSE "normal"
             /\ battle'.aiPhase = "fatigue" => battle'.aiConsecutiveSolves = 0
             /\ battle'.aiPhase # "fatigue" => battle'.aiConsecutiveSolves = streak]_vars

\* C27 witness: a delay computation off the hint path has set the phase to
\* fatigue and left the streak at zero.
C27_Witness ==
    /\ out.kind = "delays"
    /\ out.delays # {}
    /\ ~out.hint
    /\ battle.aiPhase = "fatigue"
    /\ battle.aiMistakes = 0
    /\ battle.aiConsecutiveSolves = 0

C29_EndsUnderFairTicks ==
    /\ (battle # NULL /\ battle.started) ~> (battle # NULL /\ battle.ended)
    /\ [](battle # NULL /\ ~battle.ended =>
            /\ battle.timeRemaining >= 0
            /\ battle.timeRemaining <= BATTLE_TIME
            /\ \A t \in intervals :
                  LET b == tick(Cur, t).battle
                  IN /\ b.timeRemaining = battle.timeRemaining - 1
                     /\ b.ended <=> battle.timeRemaining <= 1
                     /\ b.ended /\ ~b.playerFinished => b.result # "null")
    /\ [][battle # NULL => battle'.timeRemaining <= battle.timeRemaining]_vars

\* C29 witness: a session has ended on the clock, neither side finished, after
\* mistakes of the human took time off it.
C29_Witness ==
    /\ battle # NULL
    /\ battle.ended
    /\ battle.timeRemaining <= 0
    /\ ~battle.playerFinished /\ ~battle.aiFinished
    /\ battle.playerMistakes > 0
    /\ battle.result \in {"win", "lose", "draw"}

\* C30: whenever solve returns a grid, the grid is complete, has no value
\* repeated in a row, a column or a box, and keeps every value of the grid
\* handed in that is not 0; and solve leaves the grid handed in as it was,
\* whether it returns a grid or null.
C30_SolvedGridValid ==
    /\ [](args.kind = "solve" /\ out.kind = "grid" =>
            Complete(out.grid) /\ NoRepeat(out.grid) /\ Extends(out.grid, args.grid))
    /\ [][out'.kind \in {"grid", "null"} => args'.grid = args.grid]_vars

\* C30 as amended: whenever solve returns a grid for a grid handed in
\* without a repeated value, the grid returned is complete, has no
\* repeated value and keeps every value handed in; a grid returned for an
\* input with a repeat is complete and keeps every value handed in, the
\* repeat included; and solve leaves the grid handed in as it was.
C30_SolvedGridValidOnValidInput ==
    /\ [](args.kind = "solve" /\ out.kind = "grid" =>
            /\ Complete(out.grid)
            /\ Extends(out.grid, args.grid)
            /\ NoRepeat(args.grid) <=> NoRepeat(out.grid))
    /\ [][out'.kind \in {"grid", "null"} => args'.grid = args.grid]_vars

\* C30 witness: solve has returned a completed grid for a grid handed in
\* with empty cells and no repeat.
C30_Witness ==
    /\ args.kind = "solve"
    /\ out.kind = "grid"
    /\ NoRepeat(args.grid)
    /\ HasEmpty(args.grid)
    /\ out.grid # args.grid

\* the cells of the human's working grid that are no clue and hold the
\* value of the solution
CorrectCells(b) ==
    {p \in Pos : b.original[p] = 0 /\ b.playerBoard[p] = b.solution[p]}

\* C31: in every state of a session the human's fill counter equals the
\* number of cells of the working grid that are no clue and hold the value
\* of the solution, after any sequence of place, hint and erase, a place
\* on a cell that already holds a value included.
C31_FillCounterExact ==
    battle # NULL => battle.playerCellsFilled = Cardinality(CorrectCells(battle))

\* C32: in every state of a session 0 <= playerCellsFilled <= aiTotalCells,
\* so the human's progress handed off at the end lies between 0 and 100 %.
C32_FillCounterInRange ==
    battle # NULL =>
        /\ battle.playerCellsFilled >= 0
        /\ battle.playerCellsFilled <= battle.aiTotalCells

\* C33: in every state of a session 0 <= timeRemaining <= the battle time
\* (600 s), so the time used handed off at the end never exceeds the battle
\* time, under every interleaving of clock ticks and mistake penalties.
C33_ClockInRange ==
    battle # NULL =>
        /\ battle.timeRemaining >= 0
        /\ battle.timeRemaining <= BATTLE_TIME
        /\ BATTLE_TIME - battle.timeRemaining <= BATTLE_TIME

\* C34: when startBattle creates a session while an earlier one is under
\* way, the clock and the pending opponent action of the earlier session
\* never change the new one: until beginBattle is called for it the new
\* session keeps the full battle time and an opponent fill count of 0, and
\* after that one clock counts it down (one second per second) and at most
\* one opponent action is pending.
C34_OldTimersLeaveNewSessionAlone ==
    /\ battle # NULL /\ ~battle.started =>
          /\ battle.timeRemaining = BATTLE_TIME
          /\ battle.aiCellsFilled = 0
          /\ battle.aiMistakes = 0
    /\ Cardinality(intervals) <= 1
    /\ Cardinality(timeouts) <= 1

AIHintsConsumed(b) == (b.playerMistakes \div HINT_EVERY) - b.aiHints
PlayerHintsUsed(b) == (b.aiMistakes \div HINT_EVERY) - b.playerHints

\* C36: hint credits are conserved and never negative: the opponent's
\* credits plus those it has consumed equal floor(human mistakes / 3), the
\* human's credits plus the hints the human has used equal floor(opponent
\* mistakes / 3).  What a side has consumed starts at 0 and grows by one
\* exactly in a step that takes one credit from that side (the hint path
\* of the pacing, a hint of the human) and in no other step.
C36_HintCreditsConserved ==
    /\ [](battle # NULL =>
            /\ battle.aiHints >= 0 /\ battle.playerHints >= 0
            /\ AIHintsConsumed(battle) >= 0 /\ PlayerHintsUsed(battle) >= 0
            /\ ~battle.started => AIHintsConsumed(battle) = 0
            /\ battle.aiMistakes = 0 => PlayerHintsUsed(battle) = 0)
    /\ [][battle # NULL =>
            /\ \/ /\ AIHintsConsumed(battle') = AIHintsConsumed(battle)
                  /\ battle'.aiHints >= battle.aiHints
               \/ /\ AIHintsConsumed(battle') = AIHintsConsumed(battle) + 1
                  /\ battle'.aiHints = battle.aiHints - 1
                  /\ timeouts' # {}
            /\ \/ /\ PlayerHintsUsed(battle') = PlayerHintsUsed(battle)
                  /\ battle'.playerHints >= battle.playerHints
               \/ /\ PlayerHintsUsed(battle') = PlayerHintsUsed(battle) + 1
                  /\ battle'.playerHints = battle.playerHints - 1
                  /\ battle'.playerCellsFilled = battle.playerCellsFilled + 1]_vars

\* C36 witness: each side was granted a credit on the other's third mistake
\* and has used it.
C36_Witness ==
    /\ battle # NULL
    /\ battle.playerMistakes = HINT_EVERY /\ battle.aiHints = 0
    /\ battle.aiMistakes = HINT_EVERY /\ battle.playerHints = 0

\* C37: the clues cannot be changed for the whole session: in every state
\* each cell that is not 0 in the session's original grid holds the value
\* of the solution in the human's working grid, and no operation changes
\* the session's solution or its original grid.
C37_CluesImmutable ==
    /\ [](battle # NULL =>
            \A p \in Pos :
                battle.original[p] # 0 =>
                    /\ battle.original[p] = battle.solution[p]
                    /\ battle.playerBoard[p] = battle.solution[p])
    /\ [][battle # NULL =>
            /\ battle'.solution = battle.solution
            /\ battle'.original = battle.original]_vars

\* C37 witness: the human has placed a wrong value, filled a cell and left
\* a cell empty, and the clues stand.
C37_Witness ==
    /\ battle # NULL
    /\ battle.playerMistakes > 0
    /\ \E p \in Pos : battle.original[p] = 0 /\ battle.playerBoard[p] = 0
    /\ \E p \in Pos : battle.original[p] = 0 /\ battle.playerBoard[p] # 0
    /\ \A p \in Pos : battle.original[p] # 0 => battle.playerBoard[p] = battle.solution[p]

\* C38: within one session aiCellsFilled <= aiTotalCells in every state,
\* aiFinished is true exactly when aiCellsFilled = aiTotalCells, and
\* aiCellsFilled only grows, by exactly one in an opponent action that
\* fills a cell.
C38_OpponentFillCounter ==
    /\ [](battle # NULL =>
            /\ battle.aiCellsFilled >= 0
            /\ battle.aiCellsFilled <= battle.aiTotalCells
            /\ battle.aiFinished <=> battle.aiCellsFilled = battle.aiTotalCells
            /\ ~battle.ended =>
                  \A t \in timeouts, rnd \in RandomDraws :
                      /\ aiAction(Cur, t, FALSE, rnd).battle.aiCellsFilled
                            = battle.aiCellsFilled + 1
                      /\ aiAction(Cur, t, TRUE, rnd).battle.aiCellsFilled
                            = battle.aiCellsFilled)
    /\ [][battle # NULL =>
            \/ battle'.aiCellsFilled = battle.aiCellsFilled
            \/ /\ battle'.aiCellsFilled = battle.aiCellsFilled + 1
               /\ battle'.aiMistakes = battle.aiMistakes
               /\ battle'.aiConsecutiveSolves = battle.aiConsecutiveSolves + 1
                     \/ battle'.aiPhase = "fatigue"
               /\ timeouts # {} /\ ~battle.ended]_vars

\* C38 witness: the opponent has filled its last cell after the human had
\* finished: the opponent is finished and the session goes on.
C38_Witness ==
    /\ battle # NULL
    /\ battle.aiFinished
    /\ battle.aiCellsFilled = battle.aiTotalCells
    /\ battle.aiTotalCells > 1
    /\ ~battle.ended

\* C39: result and rating delta agree in every state: while the session
\* has not ended the result is null and the delta 0; once it has ended, by
\* any of the four triggers, the result is win with a delta of +25 or +15,
\* or lose with -25 or -15, or draw with 0.
C39_ResultMatchesDelta ==
    battle # NULL =>
        IF ~battle.ended THEN battle.result = "null" /\ battle.eloDelta = 0
        ELSE \/ battle.result = "win" /\ battle.eloDelta \in {25, 15}
             \/ battle.result = "lose" /\ battle.eloDelta \in {-25, -15}
             \/ battle.result = "draw" /\ battle.eloDelta = 0

\* C39 witness: a session has ended on the clock with both sides level: a
\* draw, delta 0, handed to Player.updateELO once.
C39_Witness ==
    /\ battle # NULL
    /\ battle.ended
    /\ battle.result = "draw" /\ battle.eloDelta = 0
    /\ battle.playerCellsFilled = battle.aiCellsFilled
    /\ battle.playerCellsFilled > 0
    /\ calls.elo = 1

\* the board and the two stacks of a game state
BoardAndStacks(st) ==
    [puzzle |-> st.puzzle, history |-> st.history, redoStack |-> st.redoStack]

\* the cell the player has selected can be written: a cell is selected, it
\* is no clue and the game is not over
CanWrite(st) ==
    /\ ~st.gameOver
    /\ st.selectedCell # NoCell
    /\ ~isOriginalCell(st, st.selectedCell)

\* C40: in the single-player game undo followed by redo is a round trip:
\* while the game is not over, after any sequence of placeNumber, eraseCell
\* and useHint (and after any sequence with undo and redo in it that has
\* left an entry to undo or nothing to redo), one undo followed at once by
\* one redo leaves the board and both history stacks as they were before
\* the undo; and every placement, erase or hint that writes the board
\* empties the redo stack.
C40_UndoRedoRoundTrip ==
    state # NoGame =>
        /\ ~state.gameOver /\ (Len(state.history) > 0 \/ Len(state.redoStack) = 0) =>
              BoardAndStacks(redo(undo(state).state).state) = BoardAndStacks(state)
        /\ CanWrite(state) =>
              /\ \A num \in GameNums, autoNotes \in BOOLEAN :
                    ~state.notesMode =>
                        LET st == placeNumber(state, num, autoNotes).state
                        IN /\ st.redoStack = <<>>
                           /\ st.puzzle[state.selectedCell] = num
                           /\ Len(st.history) = Len(state.history) + 1
              /\ LET st == eraseCell(state).state
                 IN /\ st.redoStack = <<>>
                    /\ st.puzzle[state.selectedCell] = 0
                    /\ Len(st.history) = Len(state.history) + 1
              /\ useHint(state).ret # NullRet =>
                    LET st == useHint(state).state
                    IN /\ st.redoStack = <<>>
                       /\ st.puzzle[state.selectedCell] = st.solution[state.selectedCell]
                       /\ Len(st.history) = Len(state.history) + 1

\* C40 witness: after a placement on a cell that held a value, and an undo,
\* there is an action to redo and another to undo, and the board holds the
\* value the undone action had replaced.
C40_Witness ==
    /\ state # NoGame
    /\ ~state.gameOver
    /\ Len(state.history) > 0
    /\ Len(state.redoStack) > 0
    /\ LET action == state.redoStack[Len(state.redoStack)]
       IN /\ action.oldVal # 0
          /\ action.newVal # action.oldVal
          /\ state.puzzle[<<action.row, action.col>>] = action.oldVal

====
